---- MODULE Spec2Model ----
(***************************************************************************)
(* A model of pyMUD's network pipeline (src/src/mud_client_app.py):        *)
(* the Telnet stream decoder, the GMCP dispatcher and the socket writers.  *)
(* Bytes are the integers 0..255, a bytes object is a sequence of them, a  *)
(* str is a sequence of code points.  Indices into buffers are 0-based as  *)
(* in the source (ByteAt, Slice).                                          *)
(***************************************************************************)
EXTENDS Integers, Sequences, FiniteSets, TLC

VARIABLES
    wire,                 \* bytes the peer has sent that recv() has not returned yet
    telnet_buffer,        \* self.telnet_buffer
    telnet_parser_state,  \* self.telnet_parser_state
    telnet_sub_buffer,    \* self.telnet_sub_buffer
    feeds,                \* history: one record per completed recv()+parse
    after_queue,          \* root.after(0, self._dispatch_gmcp_data, s) not yet run
    delivered,            \* history: listener calls made by _dispatch_gmcp_data
    gmcp_listeners,       \* self.gmcp_listeners
    connected,            \* self.connected
    aliases,              \* self.alias_manager.aliases, a dict in insertion order
    alias_file,           \* the text of the alias file (aliases.json)
    alias_ret,            \* the last add_alias / remove_alias call and what it returned
    reader_todo,          \* the sendall() frames of the running parse not yet begun
    inflight,             \* per thread: what its sendall() in progress has still to write
    sock_out,             \* bytes written to the socket, each tagged with its writer
    sock_calls,           \* history: the sendall() calls begun, in order
    sock,                 \* self.sock: 0 for None, else the number of the socket object
    sockets,              \* how many socket objects _initiate_connection has created
    peer,                 \* the far end of socket self.sock: "open", "eof", "error", "unconnected"
    conn_threads,         \* connection threads started (line 643) that have not run yet
    supports_due,         \* root.after(500, self.send_initial_gmcp_supports) timers pending
    readers,              \* per receive thread: its position and its local line_buffer
    gui_events,           \* history: the other root.after(0, ...) callbacks, in order
    gui_done,             \* how many of gui_events the Tk main loop has run
    current_fg_tag,       \* self.current_fg_tag
    current_bg_tag,       \* self.current_bg_tag
    is_bold,              \* self.is_bold
    is_underline,         \* self.is_underline
    spans                 \* history: the output_text.insert(END, text, tags) calls

decoderVars == <<telnet_buffer, telnet_parser_state, telnet_sub_buffer>>
socketVars == <<sock, sockets, peer, conn_threads, supports_due>>
writeVars == <<reader_todo, inflight, sock_out, sock_calls>>
styleVars == <<current_fg_tag, current_bg_tag, is_bold, is_underline, spans>>
aliasVars == <<aliases, alias_file, alias_ret>>

vars == <<wire, telnet_buffer, telnet_parser_state, telnet_sub_buffer, feeds,
          after_queue, delivered, gmcp_listeners, connected, aliases, alias_file,
          alias_ret, reader_todo,
          inflight, sock_out, sock_calls, sock, sockets, peer, conn_threads,
          supports_due, readers, gui_events, gui_done, current_fg_tag,
          current_bg_tag, is_bold, is_underline, spans>>

-----------------------------------------------------------------------------
(* Telnet constants, mud_client_app.py:73-93 *)
IAC == 255
DONT == 254
DO == 253
WONT == 252
WILL == 251
SB == 250
SE == 240
NOP == 249
GA == 249
ECHO == 1
SUPPRESS_GO_AHEAD == 3
GMCP == 201
GMCP_DATA_OPTIONS == {82, 67, 69}

STATE_NORMAL == 0
STATE_IAC == 1
STATE_SB_READ_OPTION == 2
STATE_GMCP_SUB == 3
STATE_UNKNOWN_SB == 4

States == {STATE_NORMAL, STATE_IAC, STATE_SB_READ_OPTION, STATE_GMCP_SUB, STATE_UNKNOWN_SB}
Byte == 0..255

-----------------------------------------------------------------------------
(* Python slicing and indexing on bytes/str, 0-based *)
Slice(s, a, b) ==
    LET lo == IF a < 0 THEN 0 ELSE a
        hi == IF b > Len(s) THEN Len(s) ELSE b
    IN  IF lo >= hi THEN <<>> ELSE [k \in 1..(hi - lo) |-> s[lo + k]]

SliceFrom(s, a) == Slice(s, a, Len(s))

ByteAt(s, i) == s[i + 1]

RECURSIVE Flatten(_)
Flatten(ss) ==
    IF ss = <<>> THEN <<>>
    ELSE IF Len(ss) = 1 THEN ss[1]
    ELSE LET half == Len(ss) \div 2
         IN  Flatten(SubSeq(ss, 1, half)) \o Flatten(SubSeq(ss, half + 1, Len(ss)))

Last(s) == s[Len(s)]

-----------------------------------------------------------------------------
(* bytes.decode('utf-8', errors='replace'): every maximal ill-formed        *)
(* subsequence becomes one U+FFFD.                                          *)
REPLACEMENT == 65533

Utf8Need(b) ==
    IF b < 128 THEN 1
    ELSE IF b >= 194 /\ b <= 223 THEN 2
    ELSE IF b >= 224 /\ b <= 239 THEN 3
    ELSE IF b >= 240 /\ b <= 244 THEN 4
    ELSE 0

\* the k-th byte (k >= 2) of a sequence led by b may be c
Utf8ContOk(b, k, c) ==
    IF k = 2 /\ b = 224 THEN c >= 160 /\ c <= 191
    ELSE IF k = 2 /\ b = 237 THEN c >= 128 /\ c <= 159
    ELSE IF k = 2 /\ b = 240 THEN c >= 144 /\ c <= 191
    ELSE IF k = 2 /\ b = 244 THEN c >= 128 /\ c <= 143
    ELSE c >= 128 /\ c <= 191

\* how many of the bytes after position p (0-based) continue the sequence led by s[p]
RECURSIVE Utf8Run(_, _, _, _)
Utf8Run(s, p, need, k) ==
    IF k > need \/ p + k > Len(s) THEN 0
    ELSE IF Utf8ContOk(ByteAt(s, p), k, ByteAt(s, p + k - 1))
         THEN 1 + Utf8Run(s, p, need, k + 1)
         ELSE 0

Utf8CodePoint(s, p, need) ==
    LET b == ByteAt(s, p)
        c(k) == ByteAt(s, p + k) - 128
    IN  IF need = 1 THEN b
        ELSE IF need = 2 THEN (b - 192) * 64 + c(1)
        ELSE IF need = 3 THEN (b - 224) * 4096 + c(1) * 64 + c(2)
        ELSE (b - 240) * 262144 + c(1) * 4096 + c(2) * 64 + c(3)

RECURSIVE Utf8From(_, _)
Utf8From(s, p) ==
    IF p >= Len(s) THEN <<>>
    ELSE LET need == Utf8Need(ByteAt(s, p))
             run == Utf8Run(s, p, need, 2)
         IN  IF need = 0 THEN <<REPLACEMENT>> \o Utf8From(s, p + 1)
             ELSE IF run = need - 1
                  THEN <<Utf8CodePoint(s, p, need)>> \o Utf8From(s, p + need)
                  ELSE <<REPLACEMENT>> \o Utf8From(s, p + 1 + run)

Utf8Decode(s) == Utf8From(s, 0)

\* bytes.decode('latin-1'): byte b is code point b
Latin1Decode(s) == [k \in 1..Len(s) |-> s[k]]

\* str.endswith('\n') or str.endswith('\r')
EndsWithTerminator(t) == t # <<>> /\ Last(t) \in {10, 13}

-----------------------------------------------------------------------------
(* _parse_telnet_stream_for_display_and_gmcp, mud_client_app.py:766-886.    *)
(* The generator's locals and effects are carried in a record:             *)
(*   i, disp (display_buffer), state, sub (the two self.telnet_* fields),  *)
(*   events (the tuples yielded; raw is the undecoded display_buffer),     *)
(*   writes (the sock.sendall frames), dispatched (the strings handed to   *)
(*   root.after for _dispatch_gmcp_data), brk (the loop was left by break),*)
(*   iters (loop iterations run).                                          *)

Event(raw, prompt) == [text |-> Utf8Decode(raw), prompt |-> prompt, raw |-> raw]

ParseStart(state, sub) ==
    [i |-> 0, disp |-> <<>>, state |-> state, sub |-> sub, events |-> <<>>,
     writes |-> <<>>, dispatched |-> <<>>, brk |-> FALSE, iters |-> 0]

\* mutant: DO ECHO is answered with WONT ECHO
NegotiationReply_WrongEcho(command, option) ==
    IF command = WILL /\ option = GMCP THEN << <<IAC, DO, GMCP>> >>
    ELSE IF command = DO /\ option = SUPPRESS_GO_AHEAD THEN << <<IAC, WILL, SUPPRESS_GO_AHEAD>> >>
    ELSE IF command = DO /\ option = ECHO THEN << <<IAC, WONT, ECHO>> >>
    ELSE <<>>

\* lines 796-804: the frames written in reply to IAC command option
NegotiationReply(command, option) ==
    IF command = WILL /\ option = GMCP THEN << <<IAC, DO, GMCP>> >>
    ELSE IF command = DO /\ option = SUPPRESS_GO_AHEAD THEN << <<IAC, WILL, SUPPRESS_GO_AHEAD>> >>
    ELSE IF command = DO /\ option = ECHO THEN << <<IAC, WILL, ECHO>> >>
    ELSE <<>>

\* mutant: the text before an IAC stays pending while the command is read
NormalStep_NoFlush(buf, st) ==
    LET byte == ByteAt(buf, st.i)
    IN  IF byte = IAC
        THEN [st EXCEPT !.state = STATE_IAC, !.i = @ + 1]
        ELSE [st EXCEPT !.disp = Append(@, byte), !.i = @ + 1]

\* lines 775-782
NormalStep(buf, st) ==
    LET byte == ByteAt(buf, st.i)
    IN  IF byte = IAC
        THEN [st EXCEPT !.events = IF st.disp # <<>> THEN Append(@, Event(st.disp, FALSE)) ELSE @,
                        !.disp = <<>>,
                        !.state = STATE_IAC,
                        !.i = @ + 1]
        ELSE [st EXCEPT !.disp = Append(@, byte), !.i = @ + 1]

\* mutant: a command whose option has not arrived is consumed (no i -= 1)
IacNegotiation_NoRewind(buf, st, command, i) ==
    IF i >= Len(buf)
    THEN [st EXCEPT !.i = i, !.brk = TRUE]
    ELSE [st EXCEPT !.writes = @ \o NegotiationReply(command, ByteAt(buf, i)),
                    !.state = STATE_NORMAL,
                    !.i = i + 1]

\* mutant: the rewind is followed by continue instead of break
IacNegotiation_Continue(buf, st, command, i) ==
    IF i >= Len(buf)
    THEN [st EXCEPT !.i = i - 1]
    ELSE [st EXCEPT !.writes = @ \o NegotiationReply(command, ByteAt(buf, i)),
                    !.state = STATE_NORMAL,
                    !.i = i + 1]

\* mutant: the command whose option has not arrived is kept, the state is not
IacNegotiation_ToNormal(buf, st, command, i) ==
    IF i >= Len(buf)
    THEN [st EXCEPT !.i = i - 1, !.state = STATE_NORMAL, !.brk = TRUE]
    ELSE [st EXCEPT !.writes = @ \o NegotiationReply(command, ByteAt(buf, i)),
                    !.state = STATE_NORMAL,
                    !.i = i + 1]

\* mutant: the rewind goes back to the IAC, which is kept with the command
IacNegotiation_KeepIac(buf, st, command, i) ==
    IF i >= Len(buf)
    THEN [st EXCEPT !.i = i - 2, !.brk = TRUE]
    ELSE [st EXCEPT !.writes = @ \o NegotiationReply(command, ByteAt(buf, i)),
                    !.state = STATE_NORMAL,
                    !.i = i + 1]

\* lines 788-806: command in (WILL, DO, WONT, DONT); i already points past the command
IacNegotiation(buf, st, command, i) ==
    IF i >= Len(buf)
    THEN [st EXCEPT !.i = i - 1, !.brk = TRUE]
    ELSE [st EXCEPT !.writes = @ \o NegotiationReply(command, ByteAt(buf, i)),
                    !.state = STATE_NORMAL,
                    !.i = i + 1]

\* lines 820-832: command is NOP or GA (the source gives both the value 0xF9)
IacGoAhead(st, command, i) ==
    LET decoded_text == Utf8Decode(st.disp)
        is_prompt_signal == command = GA /\ ~EndsWithTerminator(decoded_text)
    IN  [st EXCEPT !.events = IF st.disp # <<>> THEN Append(@, Event(st.disp, is_prompt_signal))
                              ELSE IF command = GA THEN Append(@, Event(<<>>, TRUE))
                              ELSE @,
                   !.disp = <<>>,
                   !.state = STATE_NORMAL,
                   !.i = i + 1]

\* lines 808-810: IAC SB
IacSubBegin(st, i) ==
    [st EXCEPT !.state = STATE_SB_READ_OPTION, !.sub = <<>>, !.i = i + 1]

\* mutant: IAC IAC is dropped instead of kept as one data byte
IacDoubled_Drop(st, i) ==
    [st EXCEPT !.state = STATE_NORMAL, !.i = i + 1]

\* lines 812-814: IAC IAC
IacDoubled(st, i) ==
    [st EXCEPT !.disp = Append(@, IAC), !.state = STATE_NORMAL, !.i = i + 1]

\* lines 816-818: IAC SE outside a sub-negotiation
IacStraySe(st, i) ==
    [st EXCEPT !.state = STATE_NORMAL, !.i = i + 1]

\* no branch of lines 788-832 matches the command: only i moves
IacOther(st, i) ==
    [st EXCEPT !.i = i + 1]

\* lines 784-832: i += 1 at line 786, and the shared i += 1 of line 881
IacStep(buf, st) ==
    LET command == ByteAt(buf, st.i)
        i == st.i + 1
    IN  IF command \in {WILL, DO, WONT, DONT} THEN IacNegotiation(buf, st, command, i)
        ELSE IF command = SB THEN IacSubBegin(st, i)
        ELSE IF command = IAC THEN IacDoubled(st, i)
        ELSE IF command = SE THEN IacStraySe(st, i)
        ELSE IF command = NOP \/ command = GA THEN IacGoAhead(st, command, i)
        ELSE IacOther(st, i)

\* lines 834-844
SbReadOptionStep(buf, st) ==
    LET option_byte == ByteAt(buf, st.i)
    IN  IF option_byte = GMCP \/ option_byte \in GMCP_DATA_OPTIONS
        THEN [st EXCEPT !.state = STATE_GMCP_SUB, !.sub = <<option_byte>>, !.i = @ + 1]
        ELSE [st EXCEPT !.state = STATE_UNKNOWN_SB, !.sub = <<>>, !.i = @ + 1]

\* lines 848 and 871: IAC at i is followed in the buffer by SE
SeFollows(buf, i) == i + 1 < Len(buf) /\ Slice(buf, i + 1, i + 2) = <<SE>>

\* lines 846-867
GmcpSubStep(buf, st) ==
    LET byte == ByteAt(buf, st.i)
    IN  IF byte = IAC /\ SeFollows(buf, st.i)
        THEN [st EXCEPT !.dispatched = Append(@, Latin1Decode(st.sub)),
                        !.sub = <<>>,
                        !.state = STATE_NORMAL,
                        !.i = @ + 2]
        ELSE [st EXCEPT !.sub = Append(@, byte), !.i = @ + 1]

\* lines 869-879
UnknownSbStep(buf, st) ==
    LET byte == ByteAt(buf, st.i)
    IN  IF byte = IAC /\ SeFollows(buf, st.i)
        THEN [st EXCEPT !.sub = <<>>, !.state = STATE_NORMAL, !.i = @ + 2]
        ELSE [st EXCEPT !.i = @ + 1]

\* one iteration of the while loop, lines 770-881
ParseStep(buf, st) ==
    LET nx == IF st.state = STATE_NORMAL THEN NormalStep(buf, st)
              ELSE IF st.state = STATE_IAC THEN IacStep(buf, st)
              ELSE IF st.state = STATE_SB_READ_OPTION THEN SbReadOptionStep(buf, st)
              ELSE IF st.state = STATE_GMCP_SUB THEN GmcpSubStep(buf, st)
              ELSE IF st.state = STATE_UNKNOWN_SB THEN UnknownSbStep(buf, st)
              ELSE [st EXCEPT !.i = @ + 1]
    IN  [nx EXCEPT !.iters = @ + 1]

\* the while loop.  Every iteration moves i forward or breaks, so the loop
\* runs at most Len(buf) times; the model stops unrolling one iteration later.
RECURSIVE ParseLoop(_, _)
ParseLoop(buf, st) ==
    IF st.brk \/ ~(st.i < Len(buf)) \/ st.iters > Len(buf) THEN st
    ELSE ParseLoop(buf, ParseStep(buf, st))

\* the whole generator run to exhaustion: the loop, the final yield of line 883-884
ParseAll(buf, state, sub) ==
    LET st == ParseLoop(buf, ParseStart(state, sub))
    IN  [st EXCEPT !.events = IF st.disp # <<>> THEN Append(@, Event(st.disp, FALSE)) ELSE @]

-----------------------------------------------------------------------------
(* json.loads on a str, for the JSON of integers, strings without escapes, *)
(* true/false/null, arrays and objects.  A value is a record of one shape: *)
(* t is its type, n an integer's value, s a string's code points, arr an   *)
(* array's values, obj an object's items in insertion order as records    *)
(* [k, v] with distinct keys (a Python dict: a repeated key keeps its      *)
(* place and takes the last value; dict equality ignores the order).       *)
(* Texts with a fraction, an exponent or a backslash escape are outside    *)
(* the modelled grammar; the inputs are drawn without those characters.    *)

JVal(t, n, s, arr, obj) == [t |-> t, n |-> n, s |-> s, arr |-> arr, obj |-> obj]
JNum(n) == JVal("num", n, <<>>, <<>>, <<>>)
JStr(s) == JVal("str", 0, s, <<>>, <<>>)
JLit(t) == JVal(t, 0, <<>>, <<>>, <<>>)
JArr(arr) == JVal("arr", 0, <<>>, arr, <<>>)
JObj(obj) == JVal("obj", 0, <<>>, <<>>, obj)
EmptyObject == JObj(<<>>)

JsonWhitespace == {32, 9, 10, 13}
Digits == 48..57

\* a parse result: ok, the value, the 0-based position after it
JOk(v, p) == [ok |-> TRUE, v |-> v, p |-> p]
JFail == [ok |-> FALSE, v |-> EmptyObject, p |-> 0]

CharAt(t, p) == IF p < Len(t) THEN t[p + 1] ELSE -1

RECURSIVE SkipWs(_, _)
SkipWs(t, p) == IF CharAt(t, p) \in JsonWhitespace THEN SkipWs(t, p + 1) ELSE p

\* the position of the closing quote of a string whose content starts at p, or -1
RECURSIVE StringEnd(_, _)
StringEnd(t, p) ==
    LET c == CharAt(t, p)
    IN  IF c = 34 THEN p
        ELSE IF c < 32 \/ c = 92 THEN -1
        ELSE StringEnd(t, p + 1)

RECURSIVE DigitsEnd(_, _)
DigitsEnd(t, p) == IF CharAt(t, p) \in Digits THEN DigitsEnd(t, p + 1) ELSE p

RECURSIVE DigitsValue(_, _, _, _)
DigitsValue(t, p, q, acc) ==
    IF p >= q THEN acc ELSE DigitsValue(t, p + 1, q, acc * 10 + (t[p + 1] - 48))

\* NUMBER_RE: -?(0|[1-9][0-9]*)
ParseNumber(t, p) ==
    LET neg == CharAt(t, p) = 45
        d == IF neg THEN p + 1 ELSE p
        q == IF CharAt(t, d) = 48 THEN d + 1 ELSE DigitsEnd(t, d)
    IN  IF q = d \/ CharAt(t, q) \in {46, 101, 69} THEN JFail
        ELSE JOk(JNum(IF neg THEN 0 - DigitsValue(t, d, q, 0) ELSE DigitsValue(t, d, q, 0)), q)

ParseLiteral(t, p) ==
    IF Slice(t, p, p + 4) = <<116, 114, 117, 101>> THEN JOk(JLit("true"), p + 4)
    ELSE IF Slice(t, p, p + 5) = <<102, 97, 108, 115, 101>> THEN JOk(JLit("false"), p + 5)
    ELSE IF Slice(t, p, p + 4) = <<110, 117, 108, 108>> THEN JOk(JLit("null"), p + 4)
    ELSE JFail

\* d[k] = v on a dict
DictSet(d, k, v) ==
    IF \E j \in 1..Len(d) : d[j].k = k
    THEN [j \in 1..Len(d) |-> IF d[j].k = k THEN [k |-> k, v |-> v] ELSE d[j]]
    ELSE Append(d, [k |-> k, v |-> v])

\* == on two decoded values
RECURSIVE JsonEq(_, _)
JsonEq(a, b) ==
    /\ a.t = b.t
    /\ a.n = b.n
    /\ a.s = b.s
    /\ Len(a.arr) = Len(b.arr)
    /\ \A j \in 1..Len(a.arr) : JsonEq(a.arr[j], b.arr[j])
    /\ Len(a.obj) = Len(b.obj)
    /\ \A j \in 1..Len(a.obj) :
          \E m \in 1..Len(b.obj) : a.obj[j].k = b.obj[m].k /\ JsonEq(a.obj[j].v, b.obj[m].v)

RECURSIVE ParseValue(_, _)
RECURSIVE ParseArrayItems(_, _, _)
RECURSIVE ParseObjectItems(_, _, _)

\* p is at a value that follows '[' or ','
ParseArrayItems(t, p, acc) ==
    LET r == ParseValue(t, p)
        q == SkipWs(t, r.p)
    IN  IF ~r.ok THEN JFail
        ELSE IF CharAt(t, q) = 93 THEN JOk(JArr(Append(acc, r.v)), q + 1)
        ELSE IF CharAt(t, q) = 44 THEN ParseArrayItems(t, SkipWs(t, q + 1), Append(acc, r.v))
        ELSE JFail

\* p is at the opening quote of a key that follows '{' or ','
ParseObjectItems(t, p, acc) ==
    LET e == StringEnd(t, p + 1)
        c == SkipWs(t, e + 1)
        r == ParseValue(t, SkipWs(t, c + 1))
        q == SkipWs(t, r.p)
        f == DictSet(acc, Slice(t, p + 1, e), r.v)
    IN  IF CharAt(t, p) # 34 \/ e < 0 \/ CharAt(t, c) # 58 THEN JFail
        ELSE IF ~r.ok THEN JFail
        ELSE IF CharAt(t, q) = 125 THEN JOk(JObj(f), q + 1)
        ELSE IF CharAt(t, q) = 44 THEN ParseObjectItems(t, SkipWs(t, q + 1), f)
        ELSE JFail

ParseValue(t, p) ==
    LET c == CharAt(t, p)
    IN  IF c = 34
        THEN LET e == StringEnd(t, p + 1)
             IN  IF e < 0 THEN JFail ELSE JOk(JStr(Slice(t, p + 1, e)), e + 1)
        ELSE IF c = 123
        THEN LET q == SkipWs(t, p + 1)
             IN  IF CharAt(t, q) = 125 THEN JOk(EmptyObject, q + 1)
                 ELSE ParseObjectItems(t, q, <<>>)
        ELSE IF c = 91
        THEN LET q == SkipWs(t, p + 1)
             IN  IF CharAt(t, q) = 93 THEN JOk(JArr(<<>>), q + 1)
                 ELSE ParseArrayItems(t, q, <<>>)
        ELSE IF c = 45 \/ c \in Digits THEN ParseNumber(t, p)
        ELSE ParseLiteral(t, p)

\* json.loads(text): ok is FALSE where it raises JSONDecodeError
JsonLoads(t) ==
    LET r == ParseValue(t, SkipWs(t, 0))
    IN  IF r.ok /\ SkipWs(t, r.p) = Len(t) THEN r ELSE JFail

-----------------------------------------------------------------------------
(* str.strip(): the white space of str among the code points below 256 *)
StrWhitespace == (9..13) \cup (28..32) \cup {133, 160}

RECURSIVE LStrip(_)
LStrip(t) == IF t # <<>> /\ Head(t) \in StrWhitespace THEN LStrip(Tail(t)) ELSE t

RECURSIVE RStrip(_)
RStrip(t) == IF t # <<>> /\ Last(t) \in StrWhitespace THEN RStrip(SubSeq(t, 1, Len(t) - 1)) ELSE t

Strip(t) == RStrip(LStrip(t))

\* str.find(' '): the 0-based index of the first space, or -1
RECURSIVE FindFrom(_, _, _)
FindFrom(t, c, p) ==
    IF p >= Len(t) THEN -1 ELSE IF t[p + 1] = c THEN p ELSE FindFrom(t, c, p + 1)

Find(t, c) == FindFrom(t, c, 0)

\* str.rfind(' ')
RECURSIVE RFindFrom(_, _, _)
RFindFrom(t, c, p) ==
    IF p < 0 THEN -1 ELSE IF t[p + 1] = c THEN p ELSE RFindFrom(t, c, p - 1)

\* mutant: the payload is split at its last space
GmcpDecode_LastSpace(gmcp_string) ==
    LET payload == Strip(gmcp_string)
        first_space_idx == RFindFrom(payload, 32, Len(payload) - 1)
        json_string == Strip(SliceFrom(payload, first_space_idx))
        loaded == JsonLoads(json_string)
    IN  IF first_space_idx # -1
        THEN [package_name |-> Slice(payload, 0, first_space_idx),
              json_data |-> IF json_string # <<>> /\ loaded.ok THEN loaded.v ELSE EmptyObject]
        ELSE [package_name |-> payload, json_data |-> EmptyObject]

(* _dispatch_gmcp_data, mud_client_app.py:888-905: the package name and    *)
(* the value handed to the listeners                                       *)
GmcpDecode(gmcp_string) ==
    LET payload == Strip(gmcp_string)
        first_space_idx == Find(payload, 32)
        json_string == Strip(SliceFrom(payload, first_space_idx))
        loaded == JsonLoads(json_string)
    IN  IF first_space_idx # -1
        THEN [package_name |-> Slice(payload, 0, first_space_idx),
              json_data |-> IF json_string # <<>> /\ loaded.ok THEN loaded.v ELSE EmptyObject]
        ELSE [package_name |-> payload, json_data |-> EmptyObject]

(* lines 907-912: the listener loop; raising is the set of listeners that  *)
(* raise when called.  The calls made, in order, each with the string it   *)
(* was decoded from.                                                       *)
ListenerCalls_StopAtRaise(listeners, gmcp_string, raising) ==
    LET msg == GmcpDecode(gmcp_string)
        reached == {j \in 1..Len(listeners) :
                       \A m \in 1..(j - 1) : listeners[m] \notin raising}
    IN  [j \in 1..Cardinality(reached) |->
            [listener |-> listeners[j], package_name |-> msg.package_name,
             json_data |-> msg.json_data, raised |-> listeners[j] \in raising,
             gmcp_string |-> gmcp_string]]

ListenerCalls(listeners, gmcp_string, raising) ==
    LET msg == GmcpDecode(gmcp_string)
    IN  [j \in 1..Len(listeners) |->
            [listener |-> listeners[j], package_name |-> msg.package_name,
             json_data |-> msg.json_data, raised |-> listeners[j] \in raising,
             gmcp_string |-> gmcp_string]]

-----------------------------------------------------------------------------
(* The outbound side: str.encode('utf-8'), json.dumps with                 *)
(* separators=(',', ':'), AliasManager.process_input                       *)

Utf8EncodeChar(c) ==
    IF c < 128 THEN <<c>>
    ELSE IF c < 2048 THEN <<192 + (c \div 64), 128 + (c % 64)>>
    ELSE IF c < 65536 THEN <<224 + (c \div 4096), 128 + ((c \div 64) % 64), 128 + (c % 64)>>
    ELSE <<240 + (c \div 262144), 128 + ((c \div 4096) % 64), 128 + ((c \div 64) % 64),
           128 + (c % 64)>>

\* mutant: .encode('latin-1'), one byte per character
Utf8Encode_Latin1(t) == t

Utf8Encode(t) == Flatten([k \in 1..Len(t) |-> Utf8EncodeChar(t[k])])

RECURSIVE NatToText(_)
NatToText(n) == IF n < 10 THEN <<48 + n>> ELSE Append(NatToText(n \div 10), 48 + (n % 10))

IntToText(n) == IF n < 0 THEN <<45>> \o NatToText(0 - n) ELSE NatToText(n)

\* ','.join(parts)
RECURSIVE JoinComma(_)
JoinComma(parts) ==
    IF parts = <<>> THEN <<>>
    ELSE IF Len(parts) = 1 THEN parts[1]
    ELSE parts[1] \o <<44>> \o JoinComma(Tail(parts))

\* json.dumps(v, separators=(',', ':')) for strings that need no escape
RECURSIVE JsonDumps(_)
JsonDumps(v) ==
    IF v.t = "num" THEN IntToText(v.n)
    ELSE IF v.t = "str" THEN <<34>> \o v.s \o <<34>>
    ELSE IF v.t = "arr"
         THEN <<91>> \o JoinComma([j \in 1..Len(v.arr) |-> JsonDumps(v.arr[j])]) \o <<93>>
    ELSE IF v.t = "obj"
         THEN <<123>> \o JoinComma([j \in 1..Len(v.obj) |->
                  <<34>> \o v.obj[j].k \o <<34, 58>> \o JsonDumps(v.obj[j].v)]) \o <<125>>
    ELSE IF v.t = "true" THEN <<116, 114, 117, 101>>
    ELSE IF v.t = "false" THEN <<102, 97, 108, 115, 101>>
    ELSE <<110, 117, 108, 108>>

\* send_gmcp, lines 923-933: the packet for (package_name, data); data None is JLit("null")
GmcpPacket(package_name, data) ==
    LET payload_data == IF data # JLit("null") THEN JsonDumps(data) ELSE <<>>
        gmcp_content == Utf8Encode(package_name \o <<32>> \o payload_data)
    IN  <<IAC, SB, GMCP>> \o gmcp_content \o <<IAC, SE>>

DictHas(d, k) == \E j \in 1..Len(d) : d[j].k = k
DictGet(d, k) == d[CHOOSE j \in 1..Len(d) : d[j].k = k].v

\* process_input trying the first word before the whole input
ProcessInput_PrefixFirst(al, user_input) ==
    LET sp == Find(user_input, 32)
        command_part == IF sp = -1 THEN user_input ELSE Slice(user_input, 0, sp)
        args_part == IF sp = -1 THEN <<>> ELSE SliceFrom(user_input, sp + 1)
    IN  IF user_input = <<>> THEN <<>>
        ELSE IF DictHas(al, command_part)
             THEN IF args_part # <<>> THEN DictGet(al, command_part) \o <<32>> \o args_part
                  ELSE DictGet(al, command_part)
        ELSE IF DictHas(al, user_input) THEN DictGet(al, user_input)
        ELSE user_input

\* del d[k]
DictDel(d, k) == SelectSeq(d, LAMBDA e : e.k # k)

\* json.dump(aliases, f, indent=4) for keys and values that need no escape:
\* "{}" for the empty dict, else one '    "key": "value"' line per item
RECURSIVE JsonDumpItems(_, _)
JsonDumpItems(al, j) ==
    IF j > Len(al) THEN <<>>
    ELSE <<32, 32, 32, 32, 34>> \o al[j].k \o <<34, 58, 32, 34>> \o al[j].v \o <<34>>
         \o (IF j < Len(al) THEN <<44, 10>> ELSE <<>>) \o JsonDumpItems(al, j + 1)

\* _save_aliases, lines 32-39, with a store that can be written
SaveAliases(al) ==
    IF al = <<>> THEN <<123, 125>>
    ELSE <<123, 10>> \o JsonDumpItems(al, 1) \o <<10, 125>>

\* _load_aliases, lines 18-30: json.load of the file, {} where it cannot be decoded
LoadAliases(file) ==
    LET r == JsonLoads(file)
    IN  IF r.ok /\ r.v.t = "obj" /\ \A j \in 1..Len(r.v.obj) : r.v.obj[j].v.t = "str"
        THEN [j \in 1..Len(r.v.obj) |-> [k |-> r.v.obj[j].k, v |-> r.v.obj[j].v.s]]
        ELSE <<>>

\* one call of add_alias or remove_alias and its return value
AliasCall(op, command, replacement, ret) ==
    [op |-> op, command |-> command, replacement |-> replacement, ret |-> ret]
NoCall == AliasCall("none", <<>>, <<>>, FALSE)

\* remove_alias changing the table without saving it
RemoveAliasCall_NoSave(al, file, command) ==
    IF DictHas(al, command)
    THEN [aliases |-> DictDel(al, command), file |-> file, ret |-> TRUE]
    ELSE [aliases |-> al, file |-> file, ret |-> FALSE]

\* add_alias, lines 41-54: the table, the file and the return value afterwards
AddAliasCall(al, file, command, replacement) ==
    IF command = <<>> \/ replacement = <<>>
    THEN [aliases |-> al, file |-> file, ret |-> FALSE]
    ELSE [aliases |-> DictSet(al, command, replacement),
          file |-> SaveAliases(DictSet(al, command, replacement)), ret |-> TRUE]

\* remove_alias, lines 56-67
RemoveAliasCall(al, file, command) ==
    IF DictHas(al, command)
    THEN [aliases |-> DictDel(al, command),
          file |-> SaveAliases(DictDel(al, command)), ret |-> TRUE]
    ELSE [aliases |-> al, file |-> file, ret |-> FALSE]

\* process_input matching keys without regard to case
Lower(t) == [i \in 1..Len(t) |-> IF 65 <= t[i] /\ t[i] <= 90 THEN t[i] + 32 ELSE t[i]]

ProcessInput_IgnoreCase(al, user_input) ==
    LET low == [j \in 1..Len(al) |-> [k |-> Lower(al[j].k), v |-> al[j].v]]
        sp == Find(user_input, 32)
        command_part == IF sp = -1 THEN user_input ELSE Slice(user_input, 0, sp)
        args_part == IF sp = -1 THEN <<>> ELSE SliceFrom(user_input, sp + 1)
    IN  IF user_input = <<>> THEN <<>>
        ELSE IF DictHas(low, Lower(user_input)) THEN DictGet(low, Lower(user_input))
        ELSE IF DictHas(low, Lower(command_part))
             THEN IF args_part # <<>> THEN DictGet(low, Lower(command_part)) \o <<32>> \o args_part
                  ELSE DictGet(low, Lower(command_part))
        ELSE user_input

\* process_input leaving the arguments out of a prefix match
ProcessInput_DropArgs(al, user_input) ==
    LET sp == Find(user_input, 32)
        command_part == IF sp = -1 THEN user_input ELSE Slice(user_input, 0, sp)
    IN  IF user_input = <<>> THEN <<>>
        ELSE IF DictHas(al, user_input) THEN DictGet(al, user_input)
        ELSE IF DictHas(al, command_part) THEN DictGet(al, command_part)
        ELSE user_input

\* AliasManager.process_input, alias_manager.py:73-104
ProcessInput(al, user_input) ==
    LET sp == Find(user_input, 32)
        command_part == IF sp = -1 THEN user_input ELSE Slice(user_input, 0, sp)
        args_part == IF sp = -1 THEN <<>> ELSE SliceFrom(user_input, sp + 1)
    IN  IF user_input = <<>> THEN <<>>
        ELSE IF DictHas(al, user_input) THEN DictGet(al, user_input)
        ELSE IF DictHas(al, command_part)
             THEN IF args_part # <<>> THEN DictGet(al, command_part) \o <<32>> \o args_part
                  ELSE DictGet(al, command_part)
        ELSE user_input

-----------------------------------------------------------------------------
(* The line assembler of receive_messages (lines 721-739) and its flushes  *)

\* str.replace("\r", "")
RemoveCr(t) == SelectSeq(t, LAMBDA c : c # 13)

\* one root.after(0, ...) callback; at is the source line that queued it
GuiEvent(f, message, tags, arg, at) ==
    [f |-> f, message |-> message, tags |-> tags, arg |-> arg, at |-> at]

\* root.after(0, self.display_message, message) and its lambda forms
DisplayCall(message, tags, at) == GuiEvent("display_message", message, tags, FALSE, at)

\* mutant: line 728 left out, the carriage returns stay in the line
RECURSIVE SplitLines_KeepCr(_, _)
SplitLines_KeepCr(line_buffer, out) ==
    LET newline_index == Find(line_buffer, 10)
    IN  IF newline_index = -1 THEN [line_buffer |-> line_buffer, out |-> out]
        ELSE SplitLines_KeepCr(SliceFrom(line_buffer, newline_index + 1),
                 Append(out, DisplayCall(Slice(line_buffer, 0, newline_index + 1),
                                         <<>>, 730)))

\* lines 723-730: the complete lines cut off the front of line_buffer
RECURSIVE SplitLines(_, _)
SplitLines(line_buffer, out) ==
    LET newline_index == Find(line_buffer, 10)
    IN  IF newline_index = -1 THEN [line_buffer |-> line_buffer, out |-> out]
        ELSE SplitLines(SliceFrom(line_buffer, newline_index + 1),
                 Append(out, DisplayCall(RemoveCr(Slice(line_buffer, 0, newline_index + 1)),
                                         <<>>, 730)))

\* lines 734, 742: not (line_buffer.endswith('\n') or line_buffer.endswith('\r'))
Unterminated(line_buffer) == ~EndsWithTerminator(line_buffer)

\* mutant: the partial line is shown and stays in line_buffer
FlushPartial_KeepBuffer(line_buffer, out, at) ==
    [line_buffer |-> line_buffer,
     out |-> IF RemoveCr(line_buffer) # <<>>
             THEN Append(out, DisplayCall(RemoveCr(line_buffer), <<>>, at)) ELSE out]

\* lines 736-739, 743-746: the partial line shown as it is and dropped
FlushPartial(line_buffer, out, at) ==
    [line_buffer |-> <<>>,
     out |-> IF RemoveCr(line_buffer) # <<>>
             THEN Append(out, DisplayCall(RemoveCr(line_buffer), <<>>, at)) ELSE out]

\* mutant: is_prompt_signal is not looked at
AssembleEvent_IgnorePrompt(acc, ev, buf) ==
    LET cut == SplitLines(acc.line_buffer \o ev.text, acc.out)
    IN  IF buf = <<>> /\ cut.line_buffer # <<>> /\ Unterminated(cut.line_buffer)
        THEN FlushPartial(cut.line_buffer, cut.out, 738)
        ELSE cut

\* lines 721-739, the body of the for loop for one (text_chunk, is_prompt_signal);
\* buf is self.telnet_buffer as the body sees it
AssembleEvent(acc, ev, buf) ==
    LET cut == SplitLines(acc.line_buffer \o ev.text, acc.out)
    IN  IF ev.prompt \/ (buf = <<>> /\ cut.line_buffer # <<>> /\ Unterminated(cut.line_buffer))
        THEN FlushPartial(cut.line_buffer, cut.out, 738)
        ELSE cut

\* line 720: the for loop over the events of one parse
RECURSIVE AssembleFeed(_, _, _)
AssembleFeed(acc, events, buf) ==
    IF events = <<>> THEN acc
    ELSE AssembleFeed(AssembleEvent(acc, Head(events), buf), Tail(events), buf)

\* the timeout branch without line 746: the partial line is shown and kept
IdleFlush_KeepBuffer(line_buffer) ==
    IF line_buffer # <<>> /\ Unterminated(line_buffer)
    THEN [line_buffer |-> line_buffer, out |-> FlushPartial(line_buffer, <<>>, 745).out]
    ELSE [line_buffer |-> line_buffer, out |-> <<>>]

\* lines 741-746: the socket.timeout branch
IdleFlush(line_buffer) ==
    IF line_buffer # <<>> /\ Unterminated(line_buffer)
    THEN FlushPartial(line_buffer, <<>>, 745)
    ELSE [line_buffer |-> line_buffer, out |-> <<>>]

\* a loop exit without lines 762-764
TeardownFlush_Drop(line_buffer) == <<>>

\* lines 762-764: what is queued once the loop is left
TeardownFlush(line_buffer) ==
    IF line_buffer # <<>>
    THEN <<DisplayCall(RemoveCr(line_buffer) \o <<10>>, <<>>, 764)>>
    ELSE <<>>

-----------------------------------------------------------------------------
(* display_message (lines 480-531): the SGR interpreter and its register   *)

\* lines 59-69
ANSI_COLOR_MAP ==
    30 :> "black_fg" @@ 31 :> "red_fg" @@ 32 :> "green_fg" @@ 33 :> "yellow_fg" @@
    34 :> "blue_fg" @@ 35 :> "magenta_fg" @@ 36 :> "cyan_fg" @@ 37 :> "white_fg" @@
    90 :> "gray_fg" @@ 91 :> "bright_red_fg" @@ 92 :> "bright_green_fg" @@
    93 :> "bright_yellow_fg" @@ 94 :> "bright_blue_fg" @@ 95 :> "bright_magenta_fg" @@
    96 :> "bright_cyan_fg" @@ 97 :> "bright_white_fg" @@
    40 :> "black_bg" @@ 41 :> "red_bg" @@ 42 :> "green_bg" @@ 43 :> "yellow_bg" @@
    44 :> "blue_bg" @@ 45 :> "magenta_bg" @@ 46 :> "cyan_bg" @@ 47 :> "white_bg" @@
    100 :> "gray_bg" @@ 101 :> "bright_red_bg" @@ 102 :> "bright_green_bg" @@
    103 :> "bright_yellow_bg" @@ 104 :> "bright_blue_bg" @@ 105 :> "bright_magenta_bg" @@
    106 :> "bright_cyan_bg" @@ 107 :> "bright_white_bg"

\* dict.get(code, default)
ColorGet(code, default) == IF code \in DOMAIN ANSI_COLOR_MAP THEN ANSI_COLOR_MAP[code] ELSE default

\* lines 263-266: the register as _apply_text_tags leaves it
DefaultStyle ==
    [current_fg_tag |-> "default_fg", current_bg_tag |-> "default_bg",
     is_bold |-> FALSE, is_underline |-> FALSE]

\* one SGR code, with code 0 resetting the colours only
ApplyCode_ResetColours(st, code) ==
    IF code = 0 THEN [st EXCEPT !.current_fg_tag = "default_fg", !.current_bg_tag = "default_bg"]
    ELSE IF code = 1 THEN [st EXCEPT !.is_bold = TRUE]
    ELSE IF code = 4 THEN [st EXCEPT !.is_underline = TRUE]
    ELSE IF code = 22 THEN [st EXCEPT !.is_bold = FALSE]
    ELSE IF code = 24 THEN [st EXCEPT !.is_underline = FALSE]
    ELSE IF (30 <= code /\ code <= 37) \/ (90 <= code /\ code <= 97)
         THEN [st EXCEPT !.current_fg_tag = ColorGet(code, "default_fg")]
    ELSE IF code = 39 THEN [st EXCEPT !.current_fg_tag = "default_fg"]
    ELSE IF (40 <= code /\ code <= 47) \/ (100 <= code /\ code <= 107)
         THEN [st EXCEPT !.current_bg_tag = ColorGet(code, "default_bg")]
    ELSE IF code = 49 THEN [st EXCEPT !.current_bg_tag = "default_bg"]
    ELSE st

\* mutant: code 22 (normal intensity) also ends the underline
ApplyCode_NormalEndsUnderline(st, code) ==
    IF code = 22 THEN [st EXCEPT !.is_bold = FALSE, !.is_underline = FALSE]
    ELSE ApplyCode_ResetColours(IF code = 0 THEN DefaultStyle ELSE st, code)

\* lines 508-528: one SGR code
ApplyCode(st, code) ==
    IF code = 0 THEN DefaultStyle
    ELSE IF code = 1 THEN [st EXCEPT !.is_bold = TRUE]
    ELSE IF code = 4 THEN [st EXCEPT !.is_underline = TRUE]
    ELSE IF code = 22 THEN [st EXCEPT !.is_bold = FALSE]
    ELSE IF code = 24 THEN [st EXCEPT !.is_underline = FALSE]
    ELSE IF (30 <= code /\ code <= 37) \/ (90 <= code /\ code <= 97)
         THEN [st EXCEPT !.current_fg_tag = ColorGet(code, "default_fg")]
    ELSE IF code = 39 THEN [st EXCEPT !.current_fg_tag = "default_fg"]
    ELSE IF (40 <= code /\ code <= 47) \/ (100 <= code /\ code <= 107)
         THEN [st EXCEPT !.current_bg_tag = ColorGet(code, "default_bg")]
    ELSE IF code = 49 THEN [st EXCEPT !.current_bg_tag = "default_bg"]
    ELSE st

\* line 507: for code in codes
RECURSIVE ApplyCodes(_, _)
ApplyCodes(st, codes) ==
    IF codes = <<>> THEN st ELSE ApplyCodes(ApplyCode(st, Head(codes)), Tail(codes))

\* line 505: [int(c) for c in codes_str.split(';') if c]
RECURSIVE SgrCodes(_, _, _, _)
SgrCodes(codes_str, p, cur, acc) ==
    IF p >= Len(codes_str)
    THEN IF cur = -1 THEN acc ELSE Append(acc, cur)
    ELSE IF ByteAt(codes_str, p) = 59
         THEN SgrCodes(codes_str, p + 1, -1, IF cur = -1 THEN acc ELSE Append(acc, cur))
         ELSE SgrCodes(codes_str, p + 1,
                       (IF cur = -1 THEN 0 ELSE cur * 10) + (ByteAt(codes_str, p) - 48), acc)

\* [0-9;]* from position p: the first position that is neither a digit nor ';'
RECURSIVE SgrParamsEnd(_, _)
SgrParamsEnd(t, p) ==
    IF p < Len(t) /\ (ByteAt(t, p) \in Digits \/ ByteAt(t, p) = 59)
    THEN SgrParamsEnd(t, p + 1) ELSE p

\* line 71: does ANSI_ESCAPE_PATTERN match at position p
SgrMatchAt(t, p) ==
    /\ p + 2 < Len(t)
    /\ ByteAt(t, p) = 27 /\ ByteAt(t, p + 1) = 91
    /\ SgrParamsEnd(t, p + 2) < Len(t)
    /\ ByteAt(t, SgrParamsEnd(t, p + 2)) = 109

\* line 485: ANSI_ESCAPE_PATTERN.split(message), texts at the odd places
\* (parts[0], parts[2], ...) and codes_str at the even ones
RECURSIVE AnsiSplit(_, _, _, _)
AnsiSplit(t, p, from, parts) ==
    IF p >= Len(t) THEN Append(parts, Slice(t, from, Len(t)))
    ELSE IF SgrMatchAt(t, p)
         THEN LET q == SgrParamsEnd(t, p + 2)
              IN  AnsiSplit(t, q + 1, q + 1,
                            parts \o <<Slice(t, from, p), Slice(t, p + 2, q)>>)
         ELSE AnsiSplit(t, p + 1, from, parts)

\* lines 492-499: the tags a span is inserted with
FinalTags(st, tags) ==
    <<st.current_fg_tag, st.current_bg_tag>>
    \o (IF st.is_bold THEN <<"bold_font">> ELSE <<>>)
    \o (IF st.is_underline THEN <<"underline_style">> ELSE <<>>)
    \o tags

\* the register after all the escapes of parts, from the m-th on
RECURSIVE FinalRegister(_, _, _)
FinalRegister(parts, m, st) ==
    IF 2 * m > Len(parts) THEN st
    ELSE FinalRegister(parts, m + 1, ApplyCodes(st, SgrCodes(parts[2 * m], 0, -1, <<>>)))

\* the loop over parts if every code were applied before any text is inserted
DisplayParts_FinalRegister(parts, i, tags, acc) ==
    LET style == FinalRegister(parts, 1, acc.style)
        texts == SelectSeq([k \in 1..((Len(parts) + 1) \div 2) |-> parts[2 * k - 1]],
                           LAMBDA t : t # <<>>)
    IN  [style |-> style,
         spans |-> acc.spans \o
                   [k \in 1..Len(texts) |-> [text |-> texts[k], tags |-> FinalTags(style, tags)]]]

\* lines 487-528: the loop over parts; acc is [style, spans]
RECURSIVE DisplayParts(_, _, _, _)
DisplayParts(parts, i, tags, acc) ==
    IF i >= Len(parts) THEN acc
    ELSE IF i % 2 = 0
         THEN DisplayParts(parts, i + 1, tags,
                  IF parts[i + 1] # <<>>
                  THEN [acc EXCEPT !.spans = Append(@, [text |-> parts[i + 1],
                                                        tags |-> FinalTags(acc.style, tags)])]
                  ELSE acc)
         ELSE DisplayParts(parts, i + 1, tags,
                  [acc EXCEPT !.style = ApplyCodes(@, SgrCodes(parts[i + 1], 0, -1, <<>>))])

\* display_message(message, tags): the register afterwards and the spans inserted
DisplayMessage(st, message, tags) ==
    DisplayParts(AnsiSplit(message, 0, 0, <<>>), 0, tags, [style |-> st, spans |-> <<>>])

-----------------------------------------------------------------------------
(* The system messages the client shows, as code points *)

\* line 637, for a profile with host "h" and port 1: "--- Attempting to connect to h:1 ---\n"
MsgAttempting ==
    <<45, 45, 45, 32, 65, 116, 116, 101, 109, 112, 116, 105, 110, 103, 32,
    116, 111, 32, 99, 111, 110, 110, 101, 99, 116, 32, 116, 111, 32, 104, 58,
    49, 32, 45, 45, 45, 10>>

\* line 661: "--- Connected to MUD ---\n"
MsgConnected ==
    <<45, 45, 45, 32, 67, 111, 110, 110, 101, 99, 116, 101, 100, 32, 116,
    111, 32, 77, 85, 68, 32, 45, 45, 45, 10>>

\* line 670: "Connection timed out.\n"
MsgConnectionTimedOut ==
    <<67, 111, 110, 110, 101, 99, 116, 105, 111, 110, 32, 116, 105, 109, 101,
    100, 32, 111, 117, 116, 46, 10>>

\* line 675, for a refused connection: "Connection error: [Errno 111] Connection refused\n"
MsgConnectionError ==
    <<67, 111, 110, 110, 101, 99, 116, 105, 111, 110, 32, 101, 114, 114, 111,
    114, 58, 32, 91, 69, 114, 114, 110, 111, 32, 49, 49, 49, 93, 32, 67, 111,
    110, 110, 101, 99, 116, 105, 111, 110, 32, 114, 101, 102, 117, 115, 101,
    100, 10>>

\* line 702: "--- Disconnected from MUD ---\n"
MsgDisconnected ==
    <<45, 45, 45, 32, 68, 105, 115, 99, 111, 110, 110, 101, 99, 116, 101,
    100, 32, 102, 114, 111, 109, 32, 77, 85, 68, 32, 45, 45, 45, 10>>

\* line 713: "--- The server disconnected unexpectedly ---\n"
MsgServerDisconnected ==
    <<45, 45, 45, 32, 84, 104, 101, 32, 115, 101, 114, 118, 101, 114, 32,
    100, 105, 115, 99, 111, 110, 110, 101, 99, 116, 101, 100, 32, 117, 110,
    101, 120, 112, 101, 99, 116, 101, 100, 108, 121, 32, 45, 45, 45, 10>>

\* line 751, for a reset connection: "--- Network error: [Errno 104] Connection reset by peer ---\n"
MsgNetworkError ==
    <<45, 45, 45, 32, 78, 101, 116, 119, 111, 114, 107, 32, 101, 114, 114,
    111, 114, 58, 32, 91, 69, 114, 114, 110, 111, 32, 49, 48, 52, 93, 32, 67,
    111, 110, 110, 101, 99, 116, 105, 111, 110, 32, 114, 101, 115, 101, 116,
    32, 98, 121, 32, 112, 101, 101, 114, 32, 45, 45, 45, 10>>

\* line 757, for self.sock being None: "--- An unexpected error occurred: 'NoneType' object has no attribute 'recv'\n"
MsgUnexpectedError ==
    <<45, 45, 45, 32, 65, 110, 32, 117, 110, 101, 120, 112, 101, 99, 116,
    101, 100, 32, 101, 114, 114, 111, 114, 32, 111, 99, 99, 117, 114, 114,
    101, 100, 58, 32, 39, 78, 111, 110, 101, 84, 121, 112, 101, 39, 32, 111,
    98, 106, 101, 99, 116, 32, 104, 97, 115, 32, 110, 111, 32, 97, 116, 116,
    114, 105, 98, 117, 116, 101, 32, 39, 114, 101, 99, 118, 39, 10>>

\* line 961: "Not connected to the MUD.\n"
MsgNotConnected ==
    <<78, 111, 116, 32, 99, 111, 110, 110, 101, 99, 116, 101, 100, 32, 116,
    111, 32, 116, 104, 101, 32, 77, 85, 68, 46, 10>>

SystemGreen == <<"system_message", "ansi_32">>
SystemRed == <<"system_message", "ansi_31">>

-----------------------------------------------------------------------------
(* Bounds and input sets *)
MaxLen == 3
MaxSplits == 2

\* the bytes short streams are drawn from: the commands, an unassigned
\* command (0xF1), the GMCP option, 'C', 'a', '\n' and the UTF-8 of U+00E9
Alphabet == {IAC, WILL, SB, SE, GA, GMCP, 241, 67, 97, 10, 195, 169}

RECURSIVE SeqsUpTo(_, _)
SeqsUpTo(S, n) ==
    IF n = 0 THEN {<<>>}
    ELSE LET shorter == SeqsUpTo(S, n - 1)
         IN  shorter \cup {Append(s, x) : s \in {t \in shorter : Len(t) = n - 1}, x \in S}

ShortStreams == SeqsUpTo(Alphabet, MaxLen) \ {<<>>}

\* IAC command option for the four negotiation commands and every option byte
NegotiationStreams == {<<IAC, c, o>> : c \in {WILL, DO, WONT, DONT}, o \in Byte}

\* a GMCP frame as a server sends it: IAC SB GMCP <package> ' ' <json> IAC SE
GmcpFrame(pkg, text) == <<IAC, SB, GMCP>> \o pkg \o <<32>> \o text \o <<IAC, SE>>

\* package names: "C", "Cv", "F"
Packages == {<<67>>, <<67, 118>>, <<70>>}

\* JSON texts with the value each denotes: {} " 1" {"h":8} [1,2] "a"
JsonCases ==
    { [text |-> <<123, 125>>, val |-> EmptyObject],
      [text |-> <<32, 49>>, val |-> JNum(1)],
      [text |-> <<123, 34, 104, 34, 58, 56, 125>>,
       val |-> JObj(<<[k |-> <<104>>, v |-> JNum(8)]>>)],
      [text |-> <<91, 49, 44, 50, 93>>, val |-> JArr(<<JNum(1), JNum(2)>>)],
      [text |-> <<34, 97, 34>>, val |-> JStr(<<97>>)] }

\* texts json.loads rejects: { x {"h" 1} "1 2" and the empty text
BadJsonTexts == {<<123>>, <<120>>, <<123, 34, 104, 34>>, <<49, 125>>, <<49, 32, 50>>, <<>>}

\* the frames, and one that carries a package name alone: IAC SB GMCP "C" IAC SE
GmcpStreams ==
    {GmcpFrame(p, c.text) : p \in Packages, c \in JsonCases}
    \cup {GmcpFrame(p, t) : p \in Packages, t \in BadJsonTexts}
    \cup {<<IAC, SB, GMCP, 67, IAC, SE>>}

\* sub-negotiations of options the client does not know (TERMINAL-TYPE, NAWS)
\* with the payloads "", 01, "Cx" and "ab": IAC SB <option> <payload> IAC SE
UnknownOptions == {24, 31}
UnknownPayloads == {<<>>, <<1>>, <<67, 120>>, <<97, 98>>}
UnknownSbStreams == {<<IAC, SB, o>> \o p \o <<IAC, SE>> : o \in UnknownOptions, p \in UnknownPayloads}

Threads == {"reader", "gui"}

-----------------------------------------------------------------------------
(* State.  Init is a session whose connection has just been established   *)
(* (lines 656-665): the buffers wiped, the reader thread about to recv(),  *)
(* a mod's listener and the HUD's registered (lines 153-157), the two      *)
(* callbacks of lines 660-661 run by the main loop.                        *)
Style ==
    [current_fg_tag |-> current_fg_tag, current_bg_tag |-> current_bg_tag,
     is_bold |-> is_bold, is_underline |-> is_underline]

SetStyle(st) ==
    /\ current_fg_tag' = st.current_fg_tag
    /\ current_bg_tag' = st.current_bg_tag
    /\ is_bold' = st.is_bold
    /\ is_underline' = st.is_underline

\* a receive thread: pc is "test" (at while self.connected), "recv" (at
\* self.sock.recv) or "done" (ended, its locals gone)
Reader(pc, line_buffer) == [pc |-> pc, line_buffer |-> line_buffer]

StatusCall(is_connected, at) ==
    GuiEvent("update_connection_status", <<>>, <<>>, is_connected, at)
DisconnectCall(at) == GuiEvent("disconnect", <<>>, <<>>, FALSE, at)

InitConnected ==
    /\ sock = 1 /\ sockets = 1 /\ peer = "open"
    /\ conn_threads = 0 /\ supports_due = 1
    /\ readers = <<Reader("recv", <<>>)>>
    /\ gui_events = <<StatusCall(TRUE, 660), DisplayCall(MsgConnected, SystemGreen, 661)>>
    /\ gui_done = 2
    /\ current_fg_tag = "default_fg" /\ current_bg_tag = "default_bg"
    /\ is_bold = FALSE /\ is_underline = FALSE
    /\ spans = DisplayMessage(DefaultStyle, MsgConnected, SystemGreen).spans
    /\ feeds = <<>>
    /\ after_queue = <<>>
    /\ delivered = <<>>
    /\ gmcp_listeners = <<"mod_listener", "_update_client_hud_from_gmcp">>
    /\ connected = TRUE
    /\ reader_todo = <<>>
    /\ inflight = [t \in Threads |-> <<>>]
    /\ sock_out = <<>>
    /\ sock_calls = <<>>

\* with the alias table {"k": "kill"}
InitRest ==
    /\ InitConnected
    /\ aliases = <<[k |-> <<107>>, v |-> <<107, 105, 108, 108>>]>>
    /\ alias_file = SaveAliases(aliases)
    /\ alias_ret = NoCall

InitSession ==
    /\ telnet_buffer = <<>>
    /\ telnet_parser_state = STATE_NORMAL
    /\ telnet_sub_buffer = <<>>
    /\ InitRest

Init ==
    /\ wire \in ShortStreams \cup NegotiationStreams \cup GmcpStreams \cup UnknownSbStreams
    /\ InitSession

(* receive_messages, line 708: a receive thread at the head of its loop.   *)
(* With self.connected false it leaves the loop and lines 762-764 queue    *)
(* what line_buffer still holds.                                           *)
ReaderTest ==
    /\ reader_todo = <<>> /\ inflight["reader"] = <<>>
    /\ \E r \in DOMAIN readers :
         /\ readers[r].pc = "test"
         /\ IF connected
            THEN /\ readers' = [readers EXCEPT ![r].pc = "recv"]
                 /\ UNCHANGED gui_events
            ELSE /\ readers' = [readers EXCEPT ![r] = Reader("done", <<>>)]
                 /\ gui_events' = gui_events \o TeardownFlush(readers[r].line_buffer)
    /\ UNCHANGED <<wire, decoderVars, feeds, after_queue, delivered, gmcp_listeners,
                   connected, aliasVars, writeVars, socketVars, gui_done, styleVars>>

(* receive_messages, lines 710-739: recv() on self.sock returns the first  *)
(* n bytes in flight, they are appended to telnet_buffer, the parse        *)
(* generator is run to exhaustion (line 886 trims the buffer) and each of  *)
(* its events goes through the line assembler.  The frames the parse       *)
(* writes with sendall go to reader_todo and are written by ReaderSendall  *)
(* and SockSend before the thread goes on.                                 *)
Receive ==
    /\ reader_todo = <<>> /\ inflight["reader"] = <<>>
    /\ sock # 0 /\ peer \in {"open", "eof"}
    /\ \E r \in DOMAIN readers, n \in 1..Len(wire) :
         /\ readers[r].pc = "recv"
         /\ n < Len(wire) => Len(feeds) < MaxSplits
         /\ LET chunk == SubSeq(wire, 1, n)
                buf == telnet_buffer \o chunk
                parse == ParseAll(buf, telnet_parser_state, telnet_sub_buffer)
                lines == AssembleFeed([line_buffer |-> readers[r].line_buffer, out |-> <<>>],
                                      parse.events, buf)
            IN  /\ wire' = SubSeq(wire, n + 1, Len(wire))
                /\ telnet_buffer' = SliceFrom(buf, parse.i)
                /\ telnet_parser_state' = parse.state
                /\ telnet_sub_buffer' = parse.sub
                /\ after_queue' = after_queue \o parse.dispatched
                /\ reader_todo' = parse.writes
                /\ readers' = [readers EXCEPT ![r] = Reader("test", lines.line_buffer)]
                /\ gui_events' = gui_events \o lines.out
                /\ feeds' = Append(feeds,
                       [chunk |-> chunk, pre_state |-> telnet_parser_state,
                        pre_buffer |-> telnet_buffer, pre_sub |-> telnet_sub_buffer,
                        state |-> parse.state, buffer |-> SliceFrom(buf, parse.i),
                        sub |-> parse.sub, events |-> parse.events,
                        writes |-> parse.writes, dispatched |-> parse.dispatched,
                        iters |-> parse.iters, reader |-> r, conn |-> sock,
                        pre_line_buffer |-> readers[r].line_buffer,
                        line_buffer |-> lines.line_buffer, shown |-> lines.out])
    /\ UNCHANGED <<delivered, gmcp_listeners, connected, aliasVars, inflight, sock_out,
                   sock_calls, socketVars, gui_done, styleVars>>

\* the bytes of frame written by one send(), tagged; last marks the frame's end
Written(t, frame, n) ==
    [k \in 1..n |-> [w |-> t, b |-> frame[k], last |-> k = Len(frame)]]

(* socket.sendall(frame) by thread t: its first send() takes n >= 1 bytes; *)
(* what is left stays in flight                                            *)
BeginSendall(t, frame) ==
    \E n \in 1..Len(frame) :
        /\ sock_out' = sock_out \o Written(t, frame, n)
        /\ inflight' = [inflight EXCEPT ![t] = SubSeq(frame, n + 1, Len(frame))]
        /\ sock_calls' = Append(sock_calls, [w |-> t, frame |-> frame, sock |-> sock])

\* lines 798, 801, 804: the reader thread's sendall of a negotiation reply
ReaderSendall ==
    /\ reader_todo # <<>> /\ inflight["reader"] = <<>>
    /\ BeginSendall("reader", Head(reader_todo))
    /\ reader_todo' = Tail(reader_todo)
    /\ UNCHANGED <<wire, telnet_buffer, telnet_parser_state, telnet_sub_buffer, feeds,
                   after_queue, delivered, gmcp_listeners, connected, aliasVars,
                   socketVars, readers, gui_events, gui_done, styleVars>>

\* sendall's loop: a further send() of thread t's frame in flight
SockSend(t) ==
    /\ inflight[t] # <<>>
    /\ \E n \in 1..Len(inflight[t]) :
         /\ sock_out' = sock_out \o
                [k \in 1..n |-> [w |-> t, b |-> inflight[t][k], last |-> k = Len(inflight[t])]]
         /\ inflight' = [inflight EXCEPT ![t] = SubSeq(@, n + 1, Len(@))]
    /\ UNCHANGED <<wire, telnet_buffer, telnet_parser_state, telnet_sub_buffer, feeds,
                   after_queue, delivered, gmcp_listeners, connected, aliasVars, reader_todo,
                   sock_calls,
                   socketVars, readers, gui_events, gui_done, styleVars>>

(* _dispatch_gmcp_data run by the GUI thread for the oldest root.after     *)
(* callback (line 854); each listener either returns or raises             *)
DispatchGmcp ==
    /\ after_queue # <<>>
    /\ inflight["gui"] = <<>>
    /\ \E raising \in SUBSET {gmcp_listeners[j] : j \in 1..Len(gmcp_listeners)} :
         delivered' = delivered \o
             ListenerCalls(gmcp_listeners, Head(after_queue), raising)
    /\ after_queue' = Tail(after_queue)
    /\ UNCHANGED <<wire, telnet_buffer, telnet_parser_state, telnet_sub_buffer, feeds,
                   gmcp_listeners, connected, aliasVars, reader_todo, inflight, sock_out,
                   sock_calls,
                   socketVars, readers, gui_events, gui_done, styleVars>>

Next ==
    \/ ReaderTest
    \/ Receive
    \/ ReaderSendall
    \/ SockSend("reader")
    \/ DispatchGmcp

Spec == Init /\ [][Next]_vars

-----------------------------------------------------------------------------
(* The GUI thread's writers (Tk main loop): it runs one callback at a time *)
(* and stays inside sendall until the frame is written.                    *)
MaxGuiSends == 1

\* what the user types: "k", "a", "k o", "k ", "\u00e9" and nothing
RawInputs == {<<107>>, <<97>>, <<107, 32, 111>>, <<107, 32>>, <<233>>, <<>>}

\* send_gmcp calls: ("P", None), ("P", {"h":8}), ("P.q", [1,"a"]), ("\u00e9", 1)
GmcpSends == { [package_name |-> <<80>>, data |-> JLit("null")],
               [package_name |-> <<80>>, data |-> JObj(<<[k |-> <<104>>, v |-> JNum(8)]>>)],
               [package_name |-> <<80, 46, 113>>, data |-> JArr(<<JNum(1), JStr(<<97>>)>>)],
               [package_name |-> <<233>>, data |-> JNum(1)] }

GuiCalls == Cardinality({j \in 1..Len(sock_calls) : sock_calls[j].w = "gui"})

\* the calls of send_message that found the session not connected
Refusals == Cardinality({j \in 1..Len(spans) : spans[j].text = MsgNotConnected})

\* send_message, lines 959-988
SendMessage ==
    /\ inflight["gui"] = <<>>
    /\ IF connected /\ sock # 0
       THEN /\ GuiCalls < MaxGuiSends
            /\ \E raw_message \in RawInputs :
                 LET message_to_send == ProcessInput(aliases, raw_message)
                     shown == DisplayMessage(Style, <<62, 32>> \o raw_message \o <<10>>,
                                             <<"user_input">>)
                 IN  /\ SetStyle(shown.style)
                     /\ spans' = spans \o shown.spans
                     /\ BeginSendall("gui", Utf8Encode(message_to_send \o <<10>>))
       ELSE /\ Refusals < MaxGuiSends
            /\ LET shown == DisplayMessage(Style, MsgNotConnected, SystemRed)
               IN  /\ SetStyle(shown.style)
                   /\ spans' = spans \o shown.spans
            /\ UNCHANGED <<inflight, sock_out, sock_calls>>
    /\ UNCHANGED <<wire, telnet_buffer, telnet_parser_state, telnet_sub_buffer, feeds,
                   after_queue, delivered, gmcp_listeners, connected, aliasVars, reader_todo,
                   socketVars, readers, gui_events, gui_done>>

\* send_gmcp, lines 918-942
SendGmcp ==
    /\ connected /\ sock # 0
    /\ inflight["gui"] = <<>>
    /\ GuiCalls < MaxGuiSends
    /\ \E g \in GmcpSends : BeginSendall("gui", GmcpPacket(g.package_name, g.data))
    /\ UNCHANGED <<wire, telnet_buffer, telnet_parser_state, telnet_sub_buffer, feeds,
                   after_queue, delivered, gmcp_listeners, connected, aliasVars, reader_todo,
                   socketVars, readers, gui_events, gui_done, styleVars>>

\* the reader and the GUI thread sharing the socket
InitWrite ==
    /\ wire \in {<<IAC, WILL, GMCP>>, <<IAC, DO, ECHO>>, <<97, IAC, DO, SUPPRESS_GO_AHEAD>>}
    /\ InitSession

NextWrite ==
    \/ ReaderTest
    \/ Receive
    \/ ReaderSendall
    \/ SockSend("reader")
    \/ SendMessage
    \/ SendGmcp
    \/ SockSend("gui")

SpecWrite == InitWrite /\ [][NextWrite]_vars

(* The user's input going through the alias table: any table of up to      *)
(* MaxAliases entries with the keys "k", "k o", "a" and "K" and the        *)
(* replacements "kill" and "x", on a connection the server is silent on.   *)
MaxAliases == 2

AliasKeys == {<<107>>, <<107, 32, 111>>, <<97>>, <<75>>}
AliasValues == {<<107, 105, 108, 108>>, <<120>>}

AliasTables ==
    {al \in SeqsUpTo([k : AliasKeys, v : AliasValues], MaxAliases) :
        \A i, j \in 1..Len(al) : al[i].k = al[j].k => i = j}

InitAlias ==
    /\ wire = <<>>
    /\ telnet_buffer = <<>>
    /\ telnet_parser_state = STATE_NORMAL
    /\ telnet_sub_buffer = <<>>
    /\ InitConnected
    /\ aliases \in AliasTables
    /\ alias_file = SaveAliases(aliases)
    /\ alias_ret = NoCall

NextAlias ==
    \/ SendMessage
    \/ SockSend("gui")

SpecAlias == InitAlias /\ [][NextAlias]_vars

(* The alias table being edited: add_alias and remove_alias with any of    *)
(* the keys, the replacements and the empty string, from any loaded table. *)
AliasCommands == AliasKeys \cup {<<>>}
AliasReplacements == AliasValues \cup {<<>>}

\* add_alias(command, replacement), lines 41-54
AddAlias ==
    /\ \E command \in AliasCommands, replacement \in AliasReplacements :
         LET call == AddAliasCall(aliases, alias_file, command, replacement)
         IN  /\ aliases' = call.aliases
             /\ alias_file' = call.file
             /\ alias_ret' = AliasCall("add_alias", command, replacement, call.ret)
    /\ UNCHANGED <<wire, decoderVars, feeds, after_queue, delivered, gmcp_listeners,
                   connected, writeVars, socketVars, readers, gui_events, gui_done,
                   styleVars>>

\* remove_alias(command), lines 56-67
RemoveAlias ==
    /\ \E command \in AliasCommands :
         LET call == RemoveAliasCall(aliases, alias_file, command)
         IN  /\ aliases' = call.aliases
             /\ alias_file' = call.file
             /\ alias_ret' = AliasCall("remove_alias", command, <<>>, call.ret)
    /\ UNCHANGED <<wire, decoderVars, feeds, after_queue, delivered, gmcp_listeners,
                   connected, writeVars, socketVars, readers, gui_events, gui_done,
                   styleVars>>

NextStore ==
    \/ AddAlias
    \/ RemoveAlias

SpecStore == InitAlias /\ [][NextStore]_vars

(* One feed from any decoder state: every state, a retained buffer, a     *)
(* sub-negotiation buffer, and a chunk whose first byte is any byte.       *)
AnyRetained == {<<>>, <<WILL>>, <<IAC>>, <<97>>}
AnySecond == {<<>>, <<SE>>, <<GMCP>>, <<97>>}

InitAny ==
    /\ wire \in {<<b>> \o s : b \in Byte, s \in AnySecond}
    /\ telnet_parser_state \in States
    /\ telnet_buffer \in AnyRetained
    /\ telnet_sub_buffer \in {<<>>, <<67>>}
    /\ InitRest

SpecAny == InitAny /\ [][Next]_vars

-----------------------------------------------------------------------------
(* The session's life: connecting, the reader's other recv() outcomes,     *)
(* the callbacks the Tk main loop runs, and disconnecting.                 *)
MaxConnects == 2

\* what a server sends after the connection is made: IAC 'P'
SessionStreams == { <<IAC, 80>> }

\* the state __init__ leaves (lines 106-116, 154-157)
InitApp ==
    /\ wire = <<>>
    /\ telnet_buffer = <<>>
    /\ telnet_parser_state = STATE_NORMAL
    /\ telnet_sub_buffer = <<>>
    /\ sock = 0 /\ sockets = 0 /\ peer = "unconnected"
    /\ conn_threads = 0 /\ supports_due = 0
    /\ readers = <<>>
    /\ gui_events = <<>>
    /\ gui_done = 0
    /\ current_fg_tag = "default_fg" /\ current_bg_tag = "default_bg"
    /\ is_bold = FALSE /\ is_underline = FALSE
    /\ spans = <<>>
    /\ feeds = <<>>
    /\ after_queue = <<>>
    /\ delivered = <<>>
    /\ gmcp_listeners = <<"mod_listener", "_update_client_hud_from_gmcp">>
    /\ connected = FALSE
    /\ aliases = <<[k |-> <<107>>, v |-> <<107, 105, 108, 108>>]>>
    /\ alias_file = SaveAliases(aliases)
    /\ alias_ret = NoCall
    /\ reader_todo = <<>>
    /\ inflight = [t \in Threads |-> <<>>]
    /\ sock_out = <<>>
    /\ sock_calls = <<>>

\* the main loop has no callback left to run and is not inside sendall:
\* the user acts on what the window shows
GuiIdle == gui_done = Len(gui_events) /\ inflight["gui"] = <<>>

(* connect_to_profile_internal, lines 629-643, run by the main loop for a  *)
(* profile that exists: refused only while self.connected                  *)
UserConnect ==
    /\ ~connected
    /\ GuiIdle
    /\ sockets + conn_threads < MaxConnects
    /\ LET shown == DisplayMessage(Style, MsgAttempting, <<"system_message">>)
       IN  SetStyle(shown.style) /\ spans' = spans \o shown.spans
    /\ conn_threads' = conn_threads + 1
    /\ UNCHANGED <<wire, decoderVars, feeds, after_queue, delivered, gmcp_listeners,
                   connected, aliasVars, writeVars, sock, sockets, peer, supports_due,
                   readers, gui_events, gui_done>>

(* _initiate_connection, lines 649-683, in its own thread: the socket is   *)
(* assigned to self.sock before connect(); on success the buffers are      *)
(* wiped, two callbacks queued, a receive thread started and the           *)
(* announcement timer set; on failure a message and a status callback.     *)
(* With a new connection the histories (feeds, spans, the callbacks that   *)
(* have run) start afresh; the callbacks still pending stay queued.        *)
ConnThread ==
    /\ conn_threads > 0
    /\ conn_threads' = conn_threads - 1
    /\ sockets' = sockets + 1
    /\ sock' = sockets + 1
    /\ \E outcome \in {"connected", "error"} :
         IF outcome = "connected"
         THEN /\ wire' \in SessionStreams
              /\ peer' = "open"
              /\ telnet_buffer' = <<>>
              /\ telnet_parser_state' = STATE_NORMAL
              /\ telnet_sub_buffer' = <<>>
              /\ gui_events' = SubSeq(gui_events, gui_done + 1, Len(gui_events)) \o
                     <<StatusCall(TRUE, 660), DisplayCall(MsgConnected, SystemGreen, 661)>>
              /\ gui_done' = 0
              /\ feeds' = <<>>
              /\ spans' = <<>>
              /\ readers' = Append(readers, Reader("test", <<>>))
              /\ supports_due' = supports_due + 1
         ELSE /\ wire' = <<>>
              /\ peer' = "unconnected"
              /\ gui_events' = gui_events \o
                     <<DisplayCall(IF outcome = "timeout" THEN MsgConnectionTimedOut
                                   ELSE MsgConnectionError, SystemRed,
                                   IF outcome = "timeout" THEN 670 ELSE 675),
                       StatusCall(FALSE, IF outcome = "timeout" THEN 672 ELSE 677)>>
              /\ UNCHANGED <<decoderVars, readers, supports_due, gui_done, feeds, spans>>
    /\ UNCHANGED <<after_queue, delivered, gmcp_listeners, connected, aliasVars,
                   writeVars, current_fg_tag, current_bg_tag, is_bold, is_underline>>

\* the server's close arrives, after the bytes it sent: recv() returns b''
PeerClose ==
    /\ sock # 0 /\ peer = "open" /\ wire = <<>>
    /\ peer' = "eof"
    /\ UNCHANGED <<wire, decoderVars, feeds, after_queue, delivered, gmcp_listeners,
                   connected, aliasVars, writeVars, sock, sockets, conn_threads,
                   supports_due, readers, gui_events, gui_done, styleVars>>

\* the connection breaks: recv() raises socket.error
NetError ==
    /\ sock # 0 /\ peer = "open"
    /\ peer' = "error"
    /\ UNCHANGED <<wire, decoderVars, feeds, after_queue, delivered, gmcp_listeners,
                   connected, aliasVars, writeVars, sock, sockets, conn_threads,
                   supports_due, readers, gui_events, gui_done, styleVars>>

\* a receive thread leaves its loop: what it queued on the way, then lines 762-764
ReaderLeaves(r, queued) ==
    /\ readers' = [readers EXCEPT ![r] = Reader("done", <<>>)]
    /\ gui_events' = gui_events \o queued \o TeardownFlush(readers[r].line_buffer)
    /\ UNCHANGED <<wire, decoderVars, feeds, after_queue, delivered, gmcp_listeners,
                   connected, aliasVars, writeVars, socketVars, gui_done, styleVars>>

\* lines 711-716, 748-754, 755-760: what each way out of the loop queues
OnEof == <<DisplayCall(MsgServerDisconnected, SystemRed, 713), DisconnectCall(715)>>
OnSocketError ==
    IF connected THEN <<DisplayCall(MsgNetworkError, SystemRed, 751), DisconnectCall(753)>>
    ELSE <<>>
OnException == <<DisplayCall(MsgUnexpectedError, SystemRed, 757), DisconnectCall(759)>>

\* lines 741-747: recv() times out after 0.1 s
RecvTimeout ==
    /\ sock # 0 /\ peer = "open"
    /\ \E r \in DOMAIN readers :
         /\ readers[r].pc = "recv"
         /\ LET idle == IdleFlush(readers[r].line_buffer)
            IN  /\ readers' = [readers EXCEPT ![r] = Reader("test", idle.line_buffer)]
                /\ gui_events' = gui_events \o idle.out
    /\ UNCHANGED <<wire, decoderVars, feeds, after_queue, delivered, gmcp_listeners,
                   connected, aliasVars, writeVars, socketVars, gui_done, styleVars>>

\* lines 711-716: recv() returns b''
RecvEof ==
    /\ sock # 0 /\ peer = "eof" /\ wire = <<>>
    /\ \E r \in DOMAIN readers : readers[r].pc = "recv" /\ ReaderLeaves(r, OnEof)

\* lines 748-754: recv() raises socket.error on a broken or unconnected socket
RecvError ==
    /\ sock # 0 /\ peer \in {"error", "unconnected"}
    /\ \E r \in DOMAIN readers : readers[r].pc = "recv" /\ ReaderLeaves(r, OnSocketError)

(* recv() after disconnect() has shut the socket down and set self.sock to *)
(* None: a thread already inside recv() gets b'' or socket.error, one that *)
(* evaluates self.sock.recv afterwards gets AttributeError (line 755)      *)
RecvAfterClose ==
    /\ sock = 0
    /\ \E r \in DOMAIN readers, queued \in {OnEof, OnSocketError, OnException} :
         readers[r].pc = "recv" /\ ReaderLeaves(r, queued)

\* disconnect, lines 685-702, with the callbacks queued so far
Disconnect(queued) ==
    IF ~connected \/ sock = 0
    THEN /\ gui_events' = queued
         /\ UNCHANGED <<sock, wire>>
    ELSE /\ sock' = 0
         /\ wire' = <<>>
         /\ gui_events' = queued \o
                <<StatusCall(FALSE, 701), DisplayCall(MsgDisconnected, SystemRed, 702)>>

\* the Servers menu's Disconnect entry (line 171)
UserDisconnect ==
    /\ connected /\ sock # 0
    /\ GuiIdle
    /\ Disconnect(gui_events)
    /\ UNCHANGED <<decoderVars, feeds, after_queue, delivered, gmcp_listeners, connected,
                   aliasVars, writeVars, sockets, peer, conn_threads, supports_due,
                   readers, gui_done, styleVars>>

(* the Tk main loop runs the oldest root.after(0, ...) callback:           *)
(* display_message, update_connection_status (line 377) or disconnect      *)
RunGuiEvent ==
    /\ gui_done < Len(gui_events)
    /\ inflight["gui"] = <<>>
    /\ gui_done' = gui_done + 1
    /\ LET e == gui_events[gui_done + 1]
       IN  CASE e.f = "display_message" ->
                  LET shown == DisplayMessage(Style, e.message, e.tags)
                  IN  /\ SetStyle(shown.style)
                      /\ spans' = spans \o shown.spans
                      /\ UNCHANGED <<connected, sock, wire, gui_events>>
             [] e.f = "update_connection_status" ->
                  /\ connected' = e.arg
                  /\ UNCHANGED <<sock, wire, gui_events, styleVars>>
             [] e.f = "disconnect" ->
                  /\ Disconnect(gui_events)
                  /\ UNCHANGED <<connected, styleVars>>
    /\ UNCHANGED <<decoderVars, feeds, after_queue, delivered, gmcp_listeners, aliasVars,
                   writeVars, sockets, peer, conn_threads, supports_due, readers>>

(* send_initial_gmcp_supports, lines 944-957: the packet of                *)
(* send_gmcp("Client.Core.Supports", supported_modules)                    *)
SupportsPacket ==
    GmcpPacket(<<67, 108, 105, 101, 110, 116, 46, 67, 111, 114, 101, 46, 83, 117, 112, 112, 111, 114, 116, 115>>,
      JObj(<<
        \* "Client.Core": ["1", "2"]
        [k |-> <<67, 108, 105, 101, 110, 116, 46, 67, 111, 114, 101>>,
         v |-> JArr(<<JStr(<<49>>), JStr(<<50>>)>>)],
        \* "Room.Info": ["1"]
        [k |-> <<82, 111, 111, 109, 46, 73, 110, 102, 111>>,
         v |-> JArr(<<JStr(<<49>>)>>)],
        \* "Char.Buffs": ["1"]
        [k |-> <<67, 104, 97, 114, 46, 66, 117, 102, 102, 115>>,
         v |-> JArr(<<JStr(<<49>>)>>)],
        \* "Char.Status": ["1"]
        [k |-> <<67, 104, 97, 114, 46, 83, 116, 97, 116, 117, 115>>,
         v |-> JArr(<<JStr(<<49>>)>>)],
        \* "Char.Cooldowns": ["1"]
        [k |-> <<67, 104, 97, 114, 46, 67, 111, 111, 108, 100, 111, 119, 110, 115>>,
         v |-> JArr(<<JStr(<<49>>)>>)],
        \* "Char.Inventory": ["1"]
        [k |-> <<67, 104, 97, 114, 46, 73, 110, 118, 101, 110, 116, 111, 114, 121>>,
         v |-> JArr(<<JStr(<<49>>)>>)],
        \* "Char.Vitals": ["1"]
        [k |-> <<67, 104, 97, 114, 46, 86, 105, 116, 97, 108, 115>>,
         v |-> JArr(<<JStr(<<49>>)>>)],
        \* "Char.Items.Inv": ["1"]
        [k |-> <<67, 104, 97, 114, 46, 73, 116, 101, 109, 115, 46, 73, 110, 118>>,
         v |-> JArr(<<JStr(<<49>>)>>)],
        \* "Char.Items.Equip": ["1"]
        [k |-> <<67, 104, 97, 114, 46, 73, 116, 101, 109, 115, 46, 69, 113, 117, 105, 112>>,
         v |-> JArr(<<JStr(<<49>>)>>)]
      >>))

(* socket.sendall(frame) by thread t while no other thread writes: all of  *)
(* its send() calls                                                        *)
Sendall(t, frame) ==
    /\ sock_out' = sock_out \o Written(t, frame, Len(frame))
    /\ sock_calls' = Append(sock_calls, [w |-> t, frame |-> frame, sock |-> sock])
    /\ UNCHANGED inflight

(* A timer set at line 667 fires in the idle main loop:                    *)
(* send_initial_gmcp_supports and send_gmcp (lines 918-942), which returns *)
(* at once when self.connected is false or self.sock is None.  The timer   *)
(* belongs to no connection and nothing cancels it.                        *)
SupportsTimer ==
    /\ supports_due > 0
    /\ GuiIdle
    /\ supports_due' = supports_due - 1
    /\ IF connected /\ sock # 0
       THEN Sendall("gui", SupportsPacket)
       ELSE UNCHANGED <<inflight, sock_out, sock_calls>>
    /\ UNCHANGED <<wire, decoderVars, feeds, after_queue, delivered, gmcp_listeners,
                   connected, aliasVars, reader_todo, sock, sockets, peer, conn_threads,
                   readers, gui_events, gui_done, styleVars>>

(* Connections made and ended from the menu, the callbacks of the main     *)
(* loop and the announcement timers.                                       *)
NextAnnounce ==
    \/ UserConnect
    \/ ConnThread
    \/ UserDisconnect
    \/ RunGuiEvent
    \/ SupportsTimer

SpecAnnounce == InitApp /\ [][NextAnnounce]_vars

NextSession ==
    \/ UserConnect
    \/ ConnThread
    \/ ReaderTest
    \/ Receive
    \/ RecvTimeout
    \/ RecvEof
    \/ RecvError
    \/ RecvAfterClose
    \/ PeerClose
    \/ NetError
    \/ UserDisconnect
    \/ RunGuiEvent

SpecSession == InitApp /\ [][NextSession]_vars

(* The input line while the session is connected and after the user has    *)
(* disconnected, with any loaded alias table: send_message, the sendall it *)
(* starts, the Disconnect menu entry and the callbacks of the main loop.   *)
NextSend ==
    \/ SendMessage
    \/ SockSend("gui")
    \/ UserDisconnect
    \/ RunGuiEvent

SpecSend == InitAlias /\ [][NextSend]_vars

\* receive thread r takes a step of receive_messages
ReaderStep(r) ==
    /\ r \in DOMAIN readers
    /\ (ReaderTest \/ Receive \/ RecvTimeout \/ RecvEof \/ RecvError \/ RecvAfterClose)
    /\ readers'[r] # readers[r]

(* The session with its scheduling: the Tk main loop keeps running the     *)
(* callbacks queued with root.after, and a started thread (a connection    *)
(* thread, each receive thread) keeps being scheduled.  Nothing is assumed *)
(* of the user, the server or the network.                                 *)
SpecTeardown ==
    /\ InitApp
    /\ [][NextSession]_vars
    /\ WF_vars(RunGuiEvent)
    /\ WF_vars(ConnThread)
    /\ \A r \in 1..MaxConnects : WF_vars(ReaderStep(r))

(* One connection and its reader's line assembler: the streams are "P>",   *)
(* "a\nb", "P\r", "\r\n", 'a' IAC GA, 'P' IAC, "\r" IAC GA and IAC GA.         *)
LineStreams ==
    { <<80, 62>>, <<97, 10, 98>>, <<80, 13>>, <<13, 10>>, <<97, IAC, GA>>, <<80, IAC>>,
      <<13, IAC, GA>>, <<IAC, GA>> }

InitLine ==
    /\ wire \in LineStreams
    /\ InitSession

NextLine ==
    \/ ReaderTest
    \/ Receive
    \/ RecvTimeout
    \/ RecvEof
    \/ RecvError
    \/ RecvAfterClose
    \/ PeerClose
    \/ NetError
    \/ UserDisconnect
    \/ RunGuiEvent

SpecLine == InitLine /\ [][NextLine]_vars

(* A connection whose server turns bold on (ESC[1m and a newline),         *)
(* followed by the user disconnecting and connecting again.                *)
StyleStreams == { <<27, 91, 49, 109, 10>> }

InitStyle ==
    /\ wire \in StyleStreams
    /\ InitSession

NextStyle ==
    \/ ReaderTest
    \/ Receive
    \/ RecvTimeout
    \/ RecvAfterClose
    \/ UserDisconnect
    \/ RunGuiEvent
    \/ UserConnect
    \/ ConnThread

SpecStyle == InitStyle /\ [][NextStyle]_vars

(* Text with SGR escapes on one connection: up to MaxTokens pieces, each   *)
(* "H", "\n", ESC[31m, ESC[0m, ESC[1;4;42m, ESC[m or ESC[22;39m, and the   *)
(* line "H" ESC[31m "R" ESC[0m " W\n".                                     *)
MaxTokens == 2

AnsiTokens ==
    { <<72>>, <<10>>, <<27, 91, 51, 49, 109>>, <<27, 91, 48, 109>>,
      <<27, 91, 49, 59, 52, 59, 52, 50, 109>>, <<27, 91, 109>>,
      <<27, 91, 50, 50, 59, 51, 57, 109>> }

HelloRedWorld ==
    <<72, 27, 91, 51, 49, 109, 82, 27, 91, 48, 109, 32, 87, 10>>

AnsiStreams ==
    {Flatten(ts) : ts \in SeqsUpTo(AnsiTokens, MaxTokens) \ {<<>>}} \cup {HelloRedWorld}

InitDisplay ==
    /\ wire \in AnsiStreams
    /\ InitSession

NextDisplay ==
    \/ ReaderTest
    \/ Receive
    \/ RecvTimeout
    \/ RunGuiEvent

SpecDisplay == InitDisplay /\ [][NextDisplay]_vars

(* The main loop with two display_message callbacks pending, queued at     *)
(* line 730 for two lines of server output: the first leaves the register  *)
(* as it is or sets bold, underline, red on green (ESC[1;4;31;42m), the    *)
(* second is one escape of up to two codes and the text "x".               *)
SgrCodeSet == {0, 1, 4, 22, 24, 31, 37, 39, 42, 49, 90, 97, 100, 107, 5, 38, 108}

SgrEscape(codes) ==
    <<27, 91>>
    \o Flatten([k \in 1..Len(codes) |->
                  (IF k > 1 THEN <<59>> ELSE <<>>) \o NatToText(codes[k])])
    \o <<109>>

SgrLines ==
    {SgrEscape(cs) \o <<120, 10>> :
        cs \in {<<>>} \cup {<<c>> : c \in SgrCodeSet}
               \cup {<<c, d>> : c \in SgrCodeSet, d \in SgrCodeSet}}

SgrFirstLines == {<<10>>, SgrEscape(<<1, 4, 31, 42>>) \o <<10>>}

InitSgr ==
    /\ wire = <<>>
    /\ telnet_buffer = <<>>
    /\ telnet_parser_state = STATE_NORMAL
    /\ telnet_sub_buffer = <<>>
    /\ sock = 1 /\ sockets = 1 /\ peer = "open"
    /\ conn_threads = 0 /\ supports_due = 1
    /\ readers = <<Reader("recv", <<>>)>>
    /\ \E first \in SgrFirstLines, line \in SgrLines :
         gui_events = <<StatusCall(TRUE, 660), DisplayCall(MsgConnected, SystemGreen, 661),
                        DisplayCall(first, <<>>, 730), DisplayCall(line, <<>>, 730)>>
    /\ gui_done = 2
    /\ current_fg_tag = "default_fg" /\ current_bg_tag = "default_bg"
    /\ is_bold = FALSE /\ is_underline = FALSE
    /\ spans = DisplayMessage(DefaultStyle, MsgConnected, SystemGreen).spans
    /\ feeds = <<>>
    /\ after_queue = <<>>
    /\ delivered = <<>>
    /\ gmcp_listeners = <<"mod_listener", "_update_client_hud_from_gmcp">>
    /\ connected = TRUE
    /\ aliases = <<[k |-> <<107>>, v |-> <<107, 105, 108, 108>>]>>
    /\ alias_file = SaveAliases(aliases)
    /\ alias_ret = NoCall
    /\ reader_todo = <<>>
    /\ inflight = [t \in Threads |-> <<>>]
    /\ sock_out = <<>>
    /\ sock_calls = <<>>

NextSgr ==
    \/ RunGuiEvent
    \/ RecvTimeout
    \/ ReaderTest

SpecSgr == InitSgr /\ [][NextSgr]_vars

-----------------------------------------------------------------------------
(* What a run has shown so far, read off the history variables *)

\* all bytes recv() has returned
Received == Flatten([j \in 1..Len(feeds) |-> feeds[j].chunk])

EmittedEvents == Flatten([j \in 1..Len(feeds) |-> feeds[j].events])

\* the concatenation of all text fragments emitted, as str and as the bytes behind it
EmittedText == Flatten([j \in 1..Len(EmittedEvents) |-> EmittedEvents[j].text])
EmittedRaw == Flatten([j \in 1..Len(EmittedEvents) |-> EmittedEvents[j].raw])

\* the reader has written every reply of the feeds so far
ReaderIdle == reader_todo = <<>> /\ inflight["reader"] = <<>>

\* the frames of the reader's sendall calls, and the bytes on the wire from the reader
ReaderFrames ==
    LET idx == {j \in 1..Len(sock_calls) : sock_calls[j].w = "reader"}
        RECURSIVE Pick(_)
        Pick(j) == IF j > Len(sock_calls) THEN <<>>
                   ELSE IF j \in idx THEN <<sock_calls[j].frame>> \o Pick(j + 1)
                   ELSE Pick(j + 1)
    IN  Pick(1)

SockBytes == [j \in 1..Len(sock_out) |-> sock_out[j].b]

NoIac(s) == \A k \in 1..Len(s) : s[k] # IAC

NegotiationCommands == {WILL, DO, WONT, DONT}

\* the negotiation policy of the specification, as a table of (command, option) -> reply
PolicyTable ==
    { <<WILL, 201, <<255, 253, 201>> >>,
      <<DO, 3, <<255, 251, 3>> >>,
      <<DO, 1, <<255, 251, 1>> >> }

PolicyReplies(c, o) ==
    IF \E e \in PolicyTable : e[1] = c /\ e[2] = o
    THEN << (CHOOSE e \in PolicyTable : e[1] = c /\ e[2] = o)[3] >>
    ELSE <<>>

-----------------------------------------------------------------------------
(* C1: chunking invariance.  Once a byte stream has been received in full, *)
(* the concatenation of the text fragments emitted equals that of the same *)
(* stream fed to a fresh decoder as one chunk.                             *)
C1_ChunkingInvariance ==
    wire = <<>> =>
        LET one == ParseAll(Received, STATE_NORMAL, <<>>).events
        IN  EmittedText = Flatten([j \in 1..Len(one) |-> one[j].text])

(* C2: byte conservation.  In a stream made of plain bytes, one completed  *)
(* command sequence (IAC IAC, IAC GA/NOP, IAC SE, or IAC command option)   *)
(* and plain bytes again, every plain byte appears exactly once and in     *)
(* order in the emitted text; IAC IAC adds its one literal 0xFF.           *)
C2_ByteConservation ==
    \A k \in 1..Len(Received) :
        LET pre == SubSeq(Received, 1, k - 1)
            c == IF k < Len(Received) THEN Received[k + 1] ELSE -1
            n == IF c \in NegotiationCommands THEN 3 ELSE 2
            post == SubSeq(Received, k + n, Len(Received))
        IN  ( /\ wire = <<>>
              /\ Received[k] = IAC
              /\ c \in NegotiationCommands \cup {IAC, GA, NOP, SE}
              /\ k + n - 1 <= Len(Received)
              /\ NoIac(pre) /\ NoIac(post) )
            => EmittedRaw = pre \o (IF c = IAC THEN <<IAC>> ELSE <<>>) \o post

(* C3: split negotiation.  When IAC command option, for any of WILL, DO,   *)
(* WONT, DONT and any option byte, reaches a fresh decoder in two feeds    *)
(* (IAC command | option, or IAC | command option), the reply the policy   *)
(* prescribes is written exactly once (none where it prescribes none), and *)
(* the decoder ends in NORMAL with an empty unconsumed buffer.             *)
C3_SplitNegotiation ==
    \A c \in NegotiationCommands, o \in Byte :
        (Len(feeds) = 2 /\ Received = <<IAC, c, o>> /\ ReaderIdle)
        => /\ ReaderFrames = PolicyReplies(c, o)
           /\ SockBytes = Flatten(PolicyReplies(c, o))
           /\ telnet_parser_state = STATE_NORMAL
           /\ telnet_buffer = <<>>

C3_Witness ==
    /\ Len(feeds) = 2 /\ ReaderIdle
    /\ feeds[1].chunk = <<IAC, WILL>> /\ feeds[2].chunk = <<GMCP>>
    /\ ReaderFrames = << <<IAC, DO, GMCP>> >>

(* C4: negotiation policy.  A complete IAC command option fed to a decoder *)
(* in NORMAL with an empty buffer causes the one write the policy names    *)
(* (WILL GMCP -> DO GMCP, DO SGA -> WILL SGA, DO ECHO -> WILL ECHO) and no *)
(* write for any other pair, yields no text event and leaves NORMAL.       *)
C4_NegotiationPolicy ==
    \A j \in 1..Len(feeds) : \A c \in NegotiationCommands, o \in Byte :
        ( /\ feeds[j].pre_state = STATE_NORMAL /\ feeds[j].pre_buffer = <<>>
          /\ feeds[j].chunk = <<IAC, c, o>> )
        => /\ feeds[j].writes = PolicyReplies(c, o)
           /\ feeds[j].events = <<>>
           /\ feeds[j].state = STATE_NORMAL
           /\ (j = 1 /\ Len(feeds) = 1 /\ ReaderIdle => SockBytes = Flatten(PolicyReplies(c, o)))

C4_Witness ==
    /\ Len(feeds) = 1 /\ feeds[1].chunk = <<IAC, DO, ECHO>> /\ ReaderIdle
    /\ SockBytes = <<IAC, WILL, ECHO>>

(* C5: GMCP receive path.  For every package name P without a space and   *)
(* every JSON value V, the bytes IAC SB GMCP 'P <json of V>' IAC SE        *)
(* received by a fresh decoder lead, once the dispatch has run, to exactly *)
(* one call of each registered listener with package P and value V, to no  *)
(* text event, and to the decoder in NORMAL.                               *)
C5_GmcpReceive ==
    \A p \in Packages : \A c \in JsonCases :
        (Received = GmcpFrame(p, c.text) /\ wire = <<>> /\ after_queue = <<>>)
        => /\ Len(delivered) = Len(gmcp_listeners)
           /\ \A j \in 1..Len(delivered) :
                /\ delivered[j].listener = gmcp_listeners[j]
                /\ delivered[j].package_name = p
                /\ JsonEq(delivered[j].json_data, c.val)
           /\ EmittedEvents = <<>>
           /\ telnet_parser_state = STATE_NORMAL

(* C6: doubled IAC.  Once plain bytes followed by IAC IAC have been        *)
(* received by a fresh decoder, in one feed or with the two IAC bytes in   *)
(* different feeds, the text output holds the plain bytes and exactly one  *)
(* literal 0xFF byte (one fragment of its own, shown as one U+FFFD by the  *)
(* UTF-8 decoding), and the decoder is in NORMAL with nothing retained.    *)
C6_DoubledIac ==
    LET n == Len(Received)
        pre == SubSeq(Received, 1, n - 2)
    IN  (n >= 2 /\ Received[n - 1] = IAC /\ Received[n] = IAC /\ NoIac(pre))
        => /\ EmittedRaw = pre \o <<IAC>>
           /\ Last(EmittedEvents) = [text |-> <<REPLACEMENT>>, prompt |-> FALSE, raw |-> <<IAC>>]
           /\ telnet_parser_state = STATE_NORMAL
           /\ telnet_buffer = <<>>

C6_Witness ==
    /\ Len(feeds) = 2
    /\ feeds[1].chunk = <<97, IAC>> /\ feeds[2].chunk = <<IAC>>
    /\ EmittedRaw = <<97, IAC>>

(* C7: total transition function.  A feed of one byte leaves the decoder   *)
(* in one of the five states whatever the state and the byte, and from     *)
(* IAC_SEEN a command byte other than WILL, DO, WONT, DONT, SB, IAC, SE    *)
(* and go-ahead/no-op leaves it in NORMAL.                                 *)
C7_UnknownCommandToNormal ==
    \A j \in 1..Len(feeds) :
        LET f == feeds[j]
        IN  (f.pre_buffer = <<>> /\ Len(f.chunk) = 1)
            => /\ f.state \in States
               /\ ( /\ f.pre_state = STATE_IAC
                    /\ f.chunk[1] \notin NegotiationCommands \cup {SB, IAC, SE, GA, NOP} )
                  => f.state = STATE_NORMAL

(* C8: a feed terminates.  From every decoder state and retained buffer,   *)
(* the parse loop ends within as many iterations as the buffer has bytes,  *)
(* retains no more than it was given and leaves the decoder in one of the  *)
(* five states.                                                            *)
C8_FeedTerminates ==
    \A j \in 1..Len(feeds) :
        LET f == feeds[j]
            given == Len(f.pre_buffer) + Len(f.chunk)
        IN  /\ f.state \in States
            /\ f.iters <= given
            /\ Len(f.buffer) <= given
            /\ (j = Len(feeds) => telnet_parser_state = f.state /\ telnet_buffer = f.buffer)

C8_Witness ==
    /\ Len(feeds) = 1
    /\ feeds[1].pre_state = STATE_IAC /\ feeds[1].pre_buffer = <<WILL>>
    /\ feeds[1].chunk = <<IAC, SE>> /\ feeds[1].iters = 2

(* C9: serialized socket writes.  The reader's negotiation replies and the *)
(* GUI thread's send_message/send_gmcp frames are mutually exclusive: no   *)
(* two sendall calls are in progress at once and on the wire the bytes of  *)
(* one frame are never followed by another writer's before the frame ends. *)
C9_FramesNeverInterleave ==
    /\ ~(inflight["reader"] # <<>> /\ inflight["gui"] # <<>>)
    /\ \A j \in 1..(Len(sock_out) - 1) :
         sock_out[j].w # sock_out[j + 1].w => sock_out[j].last

(* C10: GMCP decode.  Every dispatched payload is split at its first space *)
(* into the package name and the value text; the value handed over is the  *)
(* JSON value of the trimmed text, or the empty object when the text is    *)
(* not valid JSON or there is none; and each dispatch calls every          *)
(* registered listener, in order, with that package name and value.        *)
FirstSpace(t) ==
    IF \E k \in 1..Len(t) : t[k] = 32
    THEN CHOOSE k \in 1..Len(t) : t[k] = 32 /\ \A m \in 1..(k - 1) : t[m] # 32
    ELSE Len(t) + 1

ValueOfText(t) ==
    IF \E c \in JsonCases : Strip(c.text) = t
    THEN (CHOOSE c \in JsonCases : Strip(c.text) = t).val
    ELSE EmptyObject

DispatchedSoFar == Flatten([j \in 1..Len(feeds) |-> feeds[j].dispatched])

C10_GmcpDecode ==
    LET L == Len(gmcp_listeners)
        done == Len(DispatchedSoFar) - Len(after_queue)
    IN  /\ Len(delivered) = L * done
        /\ \A j \in 1..Len(delivered) :
             LET e == delivered[j]
                 s == DispatchedSoFar[((j - 1) \div L) + 1]
                 sp == FirstSpace(s)
                 value_text == Strip(SubSeq(s, sp + 1, Len(s)))
             IN  /\ e.listener = gmcp_listeners[((j - 1) % L) + 1]
                 /\ e.package_name = SubSeq(s, 1, sp - 1)
                 /\ value_text \in {Strip(c.text) : c \in JsonCases} \cup BadJsonTexts
                 /\ e.json_data = ValueOfText(value_text)

C10_Witness ==
    /\ Len(delivered) = 2
    /\ delivered[2].gmcp_string = <<67, 118, 32, 123, 34, 104, 34>>
    /\ delivered[2].package_name = <<67, 118>>
    /\ delivered[2].json_data = EmptyObject
    /\ delivered[2].listener = "_update_client_hud_from_gmcp"

-----------------------------------------------------------------------------
(* C11: listener isolation.  For every GMCP message the dispatcher has     *)
(* run, each registered listener has been called exactly once with that    *)
(* message, whichever of the listeners raised; and a step that calls       *)
(* listeners leaves the decoder's state, buffer and sub-buffer unchanged.  *)
DispatchesRun == Len(DispatchedSoFar) - Len(after_queue)

CallsOf(d) ==
    LET L == Len(gmcp_listeners)
    IN  {j \in 1..Len(delivered) : (d - 1) * L < j /\ j <= d * L}

C11_CalledOnceEach ==
    /\ Len(delivered) = Len(gmcp_listeners) * DispatchesRun
    /\ \A d \in 1..DispatchesRun : \A l \in 1..Len(gmcp_listeners) :
         Cardinality({j \in CallsOf(d) :
                        /\ delivered[j].listener = gmcp_listeners[l]
                        /\ delivered[j].gmcp_string = DispatchedSoFar[d]}) = 1

-----------------------------------------------------------------------------
(* C12: GMCP round trip.  For every send_gmcp(package_name, data) call     *)
(* made, decoding the content bytes of the packet it wrote (the bytes      *)
(* between IAC SB GMCP and IAC SE, as latin-1 text, through                *)
(* _dispatch_gmcp_data) gives package_name back and a value equal to data. *)
GmcpContent(frame) == SubSeq(frame, 4, Len(frame) - 2)

RoundTrips(g) ==
    LET msg == GmcpDecode(Latin1Decode(GmcpContent(GmcpPacket(g.package_name, g.data))))
    IN  msg.package_name = g.package_name /\ JsonEq(msg.json_data, g.data)

C12_GmcpRoundTrip ==
    \A j \in 1..Len(sock_calls) : \A g \in GmcpSends :
        (sock_calls[j].w = "gui" /\ sock_calls[j].frame = GmcpPacket(g.package_name, g.data))
            => RoundTrips(g)

-----------------------------------------------------------------------------
(* C13: idle prompt flush.  A read timeout that finds a non-empty partial  *)
(* line not ending in "\n" or "\r" queues that line (without "\r") as one  *)
(* display call and empties the buffer; a timeout that finds anything else *)
(* queues nothing.  So a partial line is shown once however many timeouts  *)
(* follow: there are never more idle flushes than reads that brought data. *)
EventsAt(at) == SelectSeq(gui_events, LAMBDA e : e.at = at)

TimeoutStep(r) ==
    readers[r].pc = "recv" /\ readers'[r].pc = "test" /\ feeds' = feeds

C13_IdlePromptFlush ==
    /\ [] (Len(EventsAt(745)) <= Len(feeds))
    /\ [][\A r \in DOMAIN readers :
            TimeoutStep(r) =>
              LET line_buffer == readers[r].line_buffer
              IN  IF line_buffer # <<>> /\ Unterminated(line_buffer)
                  THEN /\ gui_events' = Append(gui_events,
                                DisplayCall(RemoveCr(line_buffer), <<>>, 745))
                       /\ readers'[r].line_buffer = <<>>
                  ELSE /\ gui_events' = gui_events
                       /\ readers'[r].line_buffer = line_buffer]_vars

\* "P>" was flushed by a timeout and the reader waits in recv() again
C13_Witness ==
    /\ Len(EventsAt(745)) = 1
    /\ EventsAt(745)[1].message = <<80, 62>>
    /\ readers[1] = Reader("recv", <<>>)
    /\ peer = "open" /\ wire = <<>> /\ sock # 0

-----------------------------------------------------------------------------
(* C14: teardown flush.  Whichever way a receive thread leaves its loop    *)
(* (connected seen False after a local disconnect, recv() returning b'',   *)
(* socket.error or another exception), a non-empty line_buffer is queued   *)
(* as one last display call, without "\r" and closed by "\n", and an empty *)
(* one queues nothing.  Nothing the decoder handed over is lost or shown   *)
(* twice: the texts queued for display, with what is still buffered, are   *)
(* the decoder's text without "\r" (and the closing "\n" of the flush).    *)
Messages(events) == Flatten([j \in 1..Len(events) |-> events[j].message])

LineEvents == SelectSeq(gui_events, LAMBDA e : e.at \in {730, 738, 745, 764})

LeavesLoop(r) == readers[r].pc # "done" /\ readers'[r].pc = "done"

C14_TeardownFlush ==
    /\ [] (Len(EventsAt(764)) <= 1)
    /\ [] (Messages(LineEvents) \o RemoveCr(readers[1].line_buffer)
             = RemoveCr(EmittedText) \o (IF EventsAt(764) # <<>> THEN <<10>> ELSE <<>>))
    /\ [][\A r \in DOMAIN readers :
            LeavesLoop(r) =>
              LET line_buffer == readers[r].line_buffer
                  queued == SubSeq(gui_events', Len(gui_events) + 1, Len(gui_events'))
              IN  /\ SubSeq(gui_events', 1, Len(gui_events)) = gui_events
                  /\ IF line_buffer # <<>>
                     THEN /\ queued # <<>>
                          /\ queued[Len(queued)]
                               = DisplayCall(RemoveCr(line_buffer) \o <<10>>, <<>>, 764)
                          /\ Len(SelectSeq(queued, LAMBDA e : e.at = 764)) = 1
                     ELSE SelectSeq(queued, LAMBDA e : e.at = 764) = <<>>]_vars

\* "a\nb" was read, the server closed, and the thread left with "b" flushed
C14_Witness ==
    /\ readers[1].pc = "done"
    /\ EventsAt(713) # <<>>
    /\ Len(EventsAt(764)) = 1
    /\ EventsAt(764)[1].message = <<98, 10>>

-----------------------------------------------------------------------------
(* C15: SGR code 0.  Whatever the register holds when display_message      *)
(* reaches a code 0 (from earlier calls, earlier escapes of the message or *)
(* earlier codes of the same escape), the register is the default right    *)
(* after that code; and a call whose last code is 0 leaves the default     *)
(* register behind.                                                        *)
DisplayStep ==
    /\ gui_done' = gui_done + 1
    /\ gui_events[gui_done + 1].f = "display_message"

\* the codes of the m-th escape of parts
CodesOf(parts, m) == SgrCodes(parts[2 * m], 0, -1, <<>>)

\* the register when the m-th escape of parts is reached
RegisterBefore(parts, m) ==
    DisplayParts(SubSeq(parts, 1, 2 * m - 1), 0, <<>>, [style |-> Style, spans |-> <<>>]).style

C15_SgrReset ==
    [][DisplayStep =>
        LET parts == AnsiSplit(gui_events[gui_done + 1].message, 0, 0, <<>>)
            escapes == (Len(parts) - 1) \div 2
        IN  /\ \A m \in 1..escapes : \A c \in 1..Len(CodesOf(parts, m)) :
                 CodesOf(parts, m)[c] = 0
                   => ApplyCodes(RegisterBefore(parts, m), SubSeq(CodesOf(parts, m), 1, c))
                        = DefaultStyle
            /\ (/\ escapes >= 1
                /\ CodesOf(parts, escapes) # <<>>
                /\ CodesOf(parts, escapes)[Len(CodesOf(parts, escapes))] = 0)
                 => Style' = DefaultStyle]_vars

\* ESC[1;4;42m was shown by one call and ESC[0m by the next one
C15_Witness ==
    /\ Len(feeds) = 2
    /\ feeds[1].chunk = <<27, 91, 49, 59, 52, 59, 52, 50, 109>>
    /\ feeds[2].chunk = <<27, 91, 48, 109>>
    /\ Len(EventsAt(745)) = 2
    /\ gui_done = Len(gui_events)
    /\ Style = DefaultStyle

-----------------------------------------------------------------------------
(* C16: styled spans.  A display_message call inserts one span for each    *)
(* non-empty text between the escapes of its message, in order, tagged     *)
(* with the register as the escapes before that text left it (and not the  *)
(* ones after it).  The line "H" ESC[31m "R" ESC[0m " W\n", shown by one   *)
(* call from the default register, gives "H" (default), "R" (red_fg) and   *)
(* " W\n" (default).                                                       *)
ExpectedSpans(parts, tags) ==
    LET texts == (Len(parts) + 1) \div 2
        all == [m \in 1..texts |->
                   [text |-> parts[2 * m - 1],
                    tags |-> FinalTags(RegisterBefore(parts, m), tags)]]
    IN  SelectSeq(all, LAMBDA span : span.text # <<>>)

HelloRedWorldSpans ==
    << [text |-> <<72>>, tags |-> <<"default_fg", "default_bg">>],
       [text |-> <<82>>, tags |-> <<"red_fg", "default_bg">>],
       [text |-> <<32, 87, 10>>, tags |-> <<"default_fg", "default_bg">>] >>

HelloRedWorldShown ==
    /\ Received = HelloRedWorld
    /\ Len(EventsAt(730)) = 1
    /\ EventsAt(730)[1].message = HelloRedWorld
    /\ gui_done = Len(gui_events)

C16_StyledSpans ==
    /\ [] (HelloRedWorldShown => SubSeq(spans, Len(spans) - 2, Len(spans)) = HelloRedWorldSpans)
    /\ [][DisplayStep =>
            spans' = spans \o ExpectedSpans(AnsiSplit(gui_events[gui_done + 1].message, 0, 0, <<>>),
                                            gui_events[gui_done + 1].tags)]_vars

C16_Witness ==
    /\ HelloRedWorldShown
    /\ Len(spans) = 4
    /\ spans[3].tags = <<"red_fg", "default_bg">>

-----------------------------------------------------------------------------
(* C17: the style register on a new connection.  At the step in which      *)
(* _initiate_connection has connected the socket and started the receive   *)
(* thread, and again when "--- Connected to MUD ---" is displayed, the     *)
(* register is the default one, whatever was displayed before.             *)
ConnectionEstablished == Len(readers') = Len(readers) + 1

ShowsConnected == DisplayStep /\ gui_events[gui_done + 1].at = 661

C17_StyleDefaultOnConnect ==
    [][/\ ConnectionEstablished => Style' = DefaultStyle
       /\ ShowsConnected => Style = DefaultStyle]_vars

-----------------------------------------------------------------------------
(* C18: buffers on (re)connect.  The first recv() that the receive thread  *)
(* of the newest connection processes finds telnet_parser_state NORMAL and *)
(* telnet_buffer, telnet_sub_buffer and its line_buffer empty, whatever    *)
(* the threads of earlier connections have done.                           *)
FirstFeedOf(r) ==
    LET own == {j \in 1..Len(feeds) : feeds[j].reader = r}
    IN  IF own = {} THEN 0 ELSE CHOOSE j \in own : \A k \in own : j <= k

C18_BuffersWipedOnConnect ==
    LET first == FirstFeedOf(Len(readers))
    IN  first # 0 =>
          /\ feeds[first].pre_state = STATE_NORMAL
          /\ feeds[first].pre_buffer = <<>>
          /\ feeds[first].pre_sub = <<>>
          /\ feeds[first].pre_line_buffer = <<>>

-----------------------------------------------------------------------------
(* C19: read failure and end of stream.  Once a receive thread waits in    *)
(* recv() on a socket whose peer has closed or which has failed, that      *)
(* thread ends and the session is torn down: self.sock is None and         *)
(* connected is False.  A socket is created only by a connection thread,   *)
(* and a connection thread is started only by the user's connect action.   *)
ReadFails(r) ==
    /\ r \in DOMAIN readers
    /\ readers[r].pc = "recv"
    /\ sock # 0
    /\ peer \in {"eof", "error", "unconnected"}
    /\ wire = <<>>

TornDown == sock = 0 /\ ~connected

\* connect_to_profile_internal went past its guard and showed line 637
UserConnectStep ==
    /\ ~connected
    /\ conn_threads' = conn_threads + 1
    /\ spans' = spans \o DisplayMessage(Style, MsgAttempting, <<"system_message">>).spans

\* C19, first part: the receive thread whose read fails ends
C19_ReaderEnds ==
    \A r \in 1..MaxConnects : ReadFails(r) ~> (r \in DOMAIN readers /\ readers[r].pc = "done")

\* C19, second part: the read failure leads to the session being torn down
C19_SessionTornDown ==
    \A r \in 1..MaxConnects : ReadFails(r) ~> TornDown

\* C19, third part: only the user's connect action leads to a new socket
C19_NoAutoReconnect ==
    [][/\ conn_threads' > conn_threads => UserConnectStep
       /\ sockets' # sockets => (conn_threads > 0 /\ conn_threads' = conn_threads - 1)]_vars

-----------------------------------------------------------------------------
(* C20: alias precedence.  Whenever the whole line the user sends is a key *)
(* of the alias table, what is written to the socket is that key's         *)
(* replacement and "\n", also when the line's first word is a key too.     *)
UserInputSpans == SelectSeq(spans, LAMBDA span : span.tags[Len(span.tags)] = "user_input")

\* the line echoed as "> line\n" by the j-th send_message
RawMessage(j) == SubSeq(UserInputSpans[j].text, 3, Len(UserInputSpans[j].text) - 1)

GuiFrames ==
    LET calls == SelectSeq(sock_calls, LAMBDA call : call.w = "gui")
    IN  [j \in 1..Len(calls) |-> calls[j].frame]

C20_ExactMatchWins ==
    /\ Len(GuiFrames) = Len(UserInputSpans)
    /\ \A j \in 1..Len(UserInputSpans) :
         DictHas(aliases, RawMessage(j))
           => GuiFrames[j] = Utf8Encode(DictGet(aliases, RawMessage(j)) \o <<10>>)

\* "k o" was sent with both "k" -> "kill" and "k o" -> "x" in the table
C20_Witness ==
    /\ DictHas(aliases, <<107>>) /\ DictGet(aliases, <<107>>) = <<107, 105, 108, 108>>
    /\ DictHas(aliases, <<107, 32, 111>>) /\ DictGet(aliases, <<107, 32, 111>>) = <<120>>
    /\ Len(UserInputSpans) = 1
    /\ RawMessage(1) = <<107, 32, 111>>
    /\ GuiFrames = << <<120, 10>> >>

-----------------------------------------------------------------------------
(* C21: alias prefix expansion.  When the line the user sends is not a key *)
(* of the table but its part before the first space is, what is written is *)
(* that key's replacement, then a space and the rest of the line if the    *)
(* rest is not empty, then "\n".  With the table {"k": "kill"}: "k o" is   *)
(* sent as "kill o", "k " and "k" as "kill".                               *)
CommandPart(raw) == IF Find(raw, 32) = -1 THEN raw ELSE Slice(raw, 0, Find(raw, 32))
ArgsPart(raw) == IF Find(raw, 32) = -1 THEN <<>> ELSE SliceFrom(raw, Find(raw, 32) + 1)

KillTable == <<[k |-> <<107>>, v |-> <<107, 105, 108, 108>>]>>

KillTableSends ==
    <<107>> :> <<107, 105, 108, 108, 10>> @@
    <<107, 32>> :> <<107, 105, 108, 108, 10>> @@
    <<107, 32, 111>> :> <<107, 105, 108, 108, 32, 111, 10>>

C21_PrefixExpansion ==
    \A j \in 1..Len(UserInputSpans) :
        /\ (/\ ~DictHas(aliases, RawMessage(j))
            /\ Find(RawMessage(j), 32) # -1
            /\ DictHas(aliases, CommandPart(RawMessage(j))))
             => GuiFrames[j] = Utf8Encode(
                    DictGet(aliases, CommandPart(RawMessage(j)))
                    \o (IF ArgsPart(RawMessage(j)) # <<>>
                        THEN <<32>> \o ArgsPart(RawMessage(j)) ELSE <<>>)
                    \o <<10>>)
        /\ (aliases = KillTable /\ RawMessage(j) \in DOMAIN KillTableSends)
             => GuiFrames[j] = KillTableSends[RawMessage(j)]

\* "k o" was sent as "kill o" with the table {"k": "kill"}
C21_Witness ==
    /\ aliases = KillTable
    /\ Len(UserInputSpans) = 1
    /\ RawMessage(1) = <<107, 32, 111>>
    /\ GuiFrames = << <<107, 105, 108, 108, 32, 111, 10>> >>

-----------------------------------------------------------------------------
(* C22: alias no-match.  An empty line is sent as "\n" alone; a line that  *)
(* is not a key and whose part before the first space is not a key either  *)
(* is sent as it is, keys being compared byte for byte ("K" is not "k");   *)
(* and sending a line leaves the alias table as it was.                    *)
C22_NoMatch ==
    /\ [] (\A j \in 1..Len(UserInputSpans) :
             /\ RawMessage(j) = <<>> => GuiFrames[j] = <<10>>
             /\ (/\ RawMessage(j) # <<>>
                 /\ ~DictHas(aliases, RawMessage(j))
                 /\ ~DictHas(aliases, CommandPart(RawMessage(j))))
                  => GuiFrames[j] = Utf8Encode(RawMessage(j) \o <<10>>))
    /\ [][Len(sock_calls') > Len(sock_calls) => aliases' = aliases]_vars

\* "k" was sent unchanged with the table {"K": "kill"}
C22_Witness ==
    /\ aliases = <<[k |-> <<75>>, v |-> <<107, 105, 108, 108>>]>>
    /\ Len(UserInputSpans) = 1
    /\ RawMessage(1) = <<107>>
    /\ GuiFrames = << <<107, 10>> >>

-----------------------------------------------------------------------------
(* C23: alias persistence.  After any add_alias and remove_alias calls the *)
(* alias file decodes to the table in memory and no key occurs twice.  A   *)
(* call that changes something returns True and has rewritten the file;    *)
(* add_alias with an empty command or replacement and remove_alias of a    *)
(* key that is not there return False and leave table and file alone.      *)
SameMapping(a, b) ==
    /\ Len(a) = Len(b)
    /\ \A j \in 1..Len(a) : DictHas(b, a[j].k) /\ DictGet(b, a[j].k) = a[j].v

KeysUnique(al) == \A i, j \in 1..Len(al) : al[i].k = al[j].k => i = j

Rejected(call) ==
    \/ call.op = "add_alias" /\ (call.command = <<>> \/ call.replacement = <<>>)
    \/ call.op = "remove_alias" /\ ~DictHas(aliases, call.command)

C23_AliasPersistence ==
    /\ [] (JsonLoads(alias_file).ok /\ SameMapping(LoadAliases(alias_file), aliases))
    /\ [] KeysUnique(aliases)
    /\ [][IF Rejected(alias_ret')
          THEN ~alias_ret'.ret /\ aliases' = aliases /\ alias_file' = alias_file
          ELSE /\ alias_ret'.ret
               /\ alias_file' = SaveAliases(aliases')
               /\ IF alias_ret'.op = "add_alias"
                  THEN /\ DictHas(aliases', alias_ret'.command)
                       /\ DictGet(aliases', alias_ret'.command) = alias_ret'.replacement
                  ELSE ~DictHas(aliases', alias_ret'.command)
               /\ \A j \in 1..Len(aliases) :
                    aliases[j].k # alias_ret'.command
                      => DictHas(aliases', aliases[j].k)
                         /\ DictGet(aliases', aliases[j].k) = aliases[j].v]_vars

\* "k" was added, replaced and "k o" removed after rejected calls
C23_Witness ==
    /\ alias_ret = AliasCall("remove_alias", <<107, 32, 111>>, <<>>, TRUE)
    /\ aliases = <<[k |-> <<107>>, v |-> <<120>>]>>
    /\ alias_file = <<123, 10, 32, 32, 32, 32, 34, 107, 34, 58, 32, 34, 120, 34, 10, 125>>

-----------------------------------------------------------------------------
(* C24: a negotiation command is never consumed without its option.  A     *)
(* feed that ends right after IAC and one of WILL, DO, WONT, DONT (the two *)
(* bytes in that feed after any plain text, or the command alone after an  *)
(* IAC that ended the feed before) writes no reply, emits nothing but the  *)
(* text before the IAC, keeps the command byte as the unconsumed buffer    *)
(* and leaves the decoder in the IAC state; the next feed starts from that *)
(* and answers the command with the option it brings.                      *)
EndsAtCommand(f, c) ==
    \/ /\ f.pre_state = STATE_NORMAL /\ f.pre_buffer = <<>>
       /\ Len(f.chunk) >= 2
       /\ SubSeq(f.chunk, Len(f.chunk) - 1, Len(f.chunk)) = <<IAC, c>>
       /\ NoIac(SubSeq(f.chunk, 1, Len(f.chunk) - 2))
    \/ /\ f.pre_state = STATE_IAC /\ f.pre_buffer = <<>>
       /\ f.chunk = <<c>>

TextBeforeCommand(f) ==
    IF f.pre_state = STATE_NORMAL THEN SubSeq(f.chunk, 1, Len(f.chunk) - 2) ELSE <<>>

C24_CommandAwaitsOption ==
    \A j \in 1..Len(feeds) : \A c \in NegotiationCommands :
        EndsAtCommand(feeds[j], c)
        => /\ feeds[j].writes = <<>>
           /\ feeds[j].dispatched = <<>>
           /\ feeds[j].events = IF TextBeforeCommand(feeds[j]) = <<>> THEN <<>>
                                ELSE <<Event(TextBeforeCommand(feeds[j]), FALSE)>>
           /\ feeds[j].buffer = <<c>>
           /\ feeds[j].state = STATE_IAC
           /\ j < Len(feeds)
              => /\ feeds[j + 1].pre_state = STATE_IAC
                 /\ feeds[j + 1].pre_buffer = <<c>>
                 /\ Len(feeds[j + 1].writes) >= Len(PolicyReplies(c, feeds[j + 1].chunk[1]))
                 /\ SubSeq(feeds[j + 1].writes, 1, Len(PolicyReplies(c, feeds[j + 1].chunk[1])))
                      = PolicyReplies(c, feeds[j + 1].chunk[1])
                 /\ Len(feeds[j + 1].chunk) = 1
                      => /\ feeds[j + 1].events = <<>>
                         /\ feeds[j + 1].state = STATE_NORMAL
                         /\ feeds[j + 1].buffer = <<>>

\* IAC | DO | ECHO: the command waits for its option, then is answered
C24_Witness ==
    /\ Len(feeds) = 3 /\ ReaderIdle
    /\ feeds[1].chunk = <<IAC>>
    /\ feeds[2].chunk = <<DO>> /\ feeds[2].buffer = <<DO>> /\ feeds[2].state = STATE_IAC
    /\ feeds[3].chunk = <<ECHO>> /\ ReaderFrames = << <<IAC, WILL, ECHO>> >>

-----------------------------------------------------------------------------
(* C25: the sub-negotiation option.  Once a fresh decoder has received     *)
(* IAC SB it awaits the option with an empty sub-negotiation buffer, and   *)
(* once it has received IAC SB o, however the bytes were split into feeds, *)
(* o is the byte it has classified: GMCP or one of the GMCP data bytes     *)
(* puts it in the GMCP sub-negotiation state with exactly o as payload so  *)
(* far, any other o in the unknown sub-negotiation state.                  *)
IsGmcpOption(o) == o = GMCP \/ o \in GMCP_DATA_OPTIONS

C25_OptionFollowsSb ==
    /\ Received = <<IAC, SB>>
       => telnet_parser_state = STATE_SB_READ_OPTION /\ telnet_sub_buffer = <<>>
    /\ \A o \in Byte :
         Received = <<IAC, SB, o>>
         => IF IsGmcpOption(o)
            THEN telnet_parser_state = STATE_GMCP_SUB /\ telnet_sub_buffer = <<o>>
            ELSE telnet_parser_state = STATE_UNKNOWN_SB

-----------------------------------------------------------------------------
(* C26: a split terminator.  When a feed leaves the decoder inside a GMCP  *)
(* or unknown sub-negotiation with IAC as its last byte and the next feed  *)
(* begins with SE, the sub-negotiation ends at that SE as it does when the *)
(* bytes of both feeds arrive as one: the same payloads are dispatched     *)
(* (for GMCP the one payload, without the IAC), the same text is emitted   *)
(* for the bytes that follow, and the decoder is in the same state, NORMAL *)
(* when SE is the last byte.                                               *)
RawOf(events) == Flatten([j \in 1..Len(events) |-> events[j].raw])

SplitAtTerminator(j) ==
    /\ j < Len(feeds)
    /\ feeds[j].state \in {STATE_GMCP_SUB, STATE_UNKNOWN_SB}
    /\ Last(feeds[j].chunk) = IAC
    /\ feeds[j + 1].chunk[1] = SE

C26_SplitTerminator ==
    \A j \in 1..Len(feeds) :
        SplitAtTerminator(j)
        => LET f == feeds[j]
               g == feeds[j + 1]
               one == ParseAll(f.pre_buffer \o f.chunk \o g.chunk, f.pre_state, f.pre_sub)
           IN  /\ g.state = one.state
               /\ Len(g.chunk) = 1 => g.state = STATE_NORMAL /\ g.sub = <<>>
               /\ f.dispatched \o g.dispatched = one.dispatched
               /\ RawOf(f.events \o g.events) = RawOf(one.events)

-----------------------------------------------------------------------------
(* C27: an unknown sub-negotiation is drained.  Once a fresh decoder has   *)
(* received IAC SB o payload IAC SE, where o is neither GMCP nor a GMCP    *)
(* data byte and the payload holds no IAC, no text has been emitted,       *)
(* nothing has been dispatched as GMCP, nothing has been written to the    *)
(* socket, and the decoder is in NORMAL.                                   *)
UnknownSubneg(s) ==
    /\ Len(s) >= 5
    /\ SubSeq(s, 1, 2) = <<IAC, SB>>
    /\ ~IsGmcpOption(s[3])
    /\ NoIac(SubSeq(s, 3, Len(s) - 2))
    /\ SubSeq(s, Len(s) - 1, Len(s)) = <<IAC, SE>>

C27_UnknownSubnegDrained ==
    UnknownSubneg(Received)
    => /\ EmittedEvents = <<>>
       /\ \A j \in 1..Len(feeds) : feeds[j].dispatched = <<>> /\ feeds[j].writes = <<>>
       /\ telnet_parser_state = STATE_NORMAL

-----------------------------------------------------------------------------
(* C28: go-ahead and no-op.  A feed to a decoder in NORMAL that is plain   *)
(* text followed by IAC and the go-ahead or the no-op command emits the    *)
(* text, marks an event as a prompt signal only for a go-ahead, and leaves *)
(* the decoder in NORMAL; with no text before it a go-ahead emits exactly  *)
(* one empty event marked as a prompt signal and a no-op emits nothing.    *)
EndsAtSimpleCommand(f, c) ==
    /\ f.pre_state = STATE_NORMAL /\ f.pre_buffer = <<>>
    /\ Len(f.chunk) >= 2
    /\ SubSeq(f.chunk, Len(f.chunk) - 1, Len(f.chunk)) = <<IAC, c>>
    /\ NoIac(SubSeq(f.chunk, 1, Len(f.chunk) - 2))

C28_GoAheadAndNop ==
    \A j \in 1..Len(feeds) : \A c \in {GA, NOP} :
        EndsAtSimpleCommand(feeds[j], c)
        => LET f == feeds[j]
               text == SubSeq(f.chunk, 1, Len(f.chunk) - 2)
           IN  /\ f.state = STATE_NORMAL
               /\ RawOf(f.events) = text
               /\ \A e \in 1..Len(f.events) :
                    f.events[e].prompt
                    => c = GA /\ ~EndsWithTerminator(f.events[e].text)
               /\ (c = GA /\ text = <<>>) => f.events = <<Event(<<>>, TRUE)>>
               /\ (c = NOP /\ text = <<>>) => f.events = <<>>

-----------------------------------------------------------------------------
(* C29: immediate partial-line flush.  When a receive step has processed   *)
(* Text events and the decoder has kept no unconsumed input, a partial     *)
(* line that is non-empty and does not end in a line terminator has been   *)
(* queued for display in that step and the partial-line buffer is empty:   *)
(* the step never ends with such a partial line still waiting.             *)
C29_ImmediatePartialFlush ==
    \A j \in 1..Len(feeds) :
        (feeds[j].events # <<>> /\ feeds[j].buffer = <<>>)
        => \/ feeds[j].line_buffer = <<>>
           \/ EndsWithTerminator(feeds[j].line_buffer)

-----------------------------------------------------------------------------
(* C30: the prompt-signal flush.  A receive step whose last Text event is  *)
(* its one prompt signal leaves the partial-line buffer empty; everything  *)
(* held and received, carriage returns removed, has been queued in order,  *)
(* and what followed the last newline was queued as one unit of its own,   *)
(* unless nothing is left of it once carriage returns are removed: then    *)
(* only the complete lines were queued.                                    *)
PromptFeed(f) ==
    /\ f.events # <<>>
    /\ Last(f.events).prompt
    /\ \A e \in 1..(Len(f.events) - 1) : ~f.events[e].prompt

TextOf(events) == Flatten([e \in 1..Len(events) |-> events[e].text])

AfterLastNewline(t) ==
    LET at == {k \in 1..Len(t) : t[k] = 10}
    IN  IF at = {} THEN t
        ELSE SubSeq(t, (CHOOSE k \in at : \A m \in at : m <= k) + 1, Len(t))

C30_PromptFlush ==
    \A j \in 1..Len(feeds) :
        PromptFeed(feeds[j])
        => LET f == feeds[j]
               total == f.pre_line_buffer \o TextOf(f.events)
               partial == RemoveCr(AfterLastNewline(total))
           IN  /\ f.line_buffer = <<>>
               /\ Flatten([k \in 1..Len(f.shown) |-> f.shown[k].message]) = RemoveCr(total)
               /\ IF partial # <<>>
                  THEN f.shown # <<>> /\ Last(f.shown) = DisplayCall(partial, <<>>, 738)
                  ELSE \A k \in 1..Len(f.shown) :
                         f.shown[k].at = 730 /\ Last(f.shown[k].message) = 10

\* "a" is held when IAC GA arrives, and is queued by that receive step
C30_Witness ==
    /\ Len(feeds) = 2
    /\ feeds[1].chunk = <<97>> /\ feeds[2].chunk = <<IAC, GA>>
    /\ feeds[2].pre_line_buffer = <<97>>
    /\ feeds[2].shown = <<DisplayCall(<<97>>, <<>>, 738)>>
    /\ feeds[2].line_buffer = <<>>
    /\ \E r \in DOMAIN readers : readers[r].line_buffer = <<>>

-----------------------------------------------------------------------------
(* C31: line splitting.  After each Text event of a receive step the       *)
(* partial-line buffer holds no newline; every complete line queued ends   *)
(* with a newline, holds no other newline and no carriage return; and the  *)
(* lines are queued in the order of the stream: together with what else    *)
(* the step queued they spell the text held and received, carriage returns *)
(* removed, from its start.                                                *)
NoNewline(t) == \A k \in 1..Len(t) : t[k] # 10

CompleteLine(m) ==
    /\ m # <<>> /\ Last(m) = 10
    /\ \A k \in 1..(Len(m) - 1) : m[k] # 10
    /\ \A k \in 1..Len(m) : m[k] # 13

IsPrefix(a, b) == Len(a) <= Len(b) /\ SubSeq(b, 1, Len(a)) = a

\* the assembler after the first n events of feed f
AfterEvents(f, n) ==
    AssembleFeed([line_buffer |-> f.pre_line_buffer, out |-> <<>>],
                 SubSeq(f.events, 1, n), f.pre_buffer \o f.chunk)

-----------------------------------------------------------------------------
(* C32: one reader per active connection.  While the first connection made *)
(* is still up (its socket has not been shut down by disconnect, the       *)
(* server has not closed it and no socket error has occurred), its receive *)
(* thread has not left the read loop.                                      *)
FirstConnectionUp ==
    /\ sockets = 1 /\ sock = 1 /\ peer = "open"
    /\ Len(readers) = 1

C32_ReaderStaysInLoop ==
    FirstConnectionUp => readers[1].pc # "done"

-----------------------------------------------------------------------------
(* C33: at most one connection session.  Whenever a connection thread     *)
(* creates a socket, no connection is active: no receive thread is in its  *)
(* loop on an open socket.  So a connect request made while a connection   *)
(* is active or being established leads to no second socket and no second  *)
(* receive thread on the decoder's buffers.                                *)
ActiveConnection ==
    /\ sock # 0 /\ peer = "open"
    /\ \E r \in DOMAIN readers : readers[r].pc # "done"

C33_SingleSession ==
    [][sockets' > sockets => ~ActiveConnection]_vars

-----------------------------------------------------------------------------
(* C34: cancellation.  Once disconnect has shut the socket down, every     *)
(* receive thread still running ends, and nothing is read while the socket *)
(* is shut; a disconnect callback that finds the session not connected or  *)
(* without a socket changes nothing.                                       *)
RunsDisconnect ==
    /\ gui_done < Len(gui_events)
    /\ gui_done' = gui_done + 1
    /\ gui_events[gui_done + 1].f = "disconnect"

\* C34, first part: after the shutdown the receive threads end
C34_ReaderEndsAfterDisconnect ==
    \A r \in 1..MaxConnects :
        (sock = 0 /\ r \in DOMAIN readers /\ readers[r].pc # "done")
           ~> (r \in DOMAIN readers /\ readers[r].pc = "done")

\* C34, second part: no input is processed on the closed connection
C34_NoInputAfterDisconnect ==
    [][sock = 0 /\ sock' = 0 => feeds' = feeds /\ UNCHANGED decoderVars]_vars

\* C34, third part: disconnect when not connected is a no-op
C34_DisconnectNoOp ==
    [][(RunsDisconnect /\ (~connected \/ sock = 0))
       => UNCHANGED <<wire, decoderVars, feeds, after_queue, delivered, gmcp_listeners,
                      connected, aliasVars, writeVars, socketVars, readers, gui_events,
                      styleVars>>]_vars

-----------------------------------------------------------------------------
(* C35: SGR frame effects.  In every display_message call, each code of    *)
(* each escape changes the register in its own field only: 1 and 22 the    *)
(* bold flag, 4 and 24 the underline flag, 30-37, 90-97 and 39 the         *)
(* foreground tag, 40-47, 100-107 and 49 the background tag, and a code    *)
(* that is none of these (nor 0) nothing at all.  The codes are applied    *)
(* from left to right: each field ends as the last code that concerns it   *)
(* says, and as it was if no code concerns it.                             *)
FgCodes == (30..37) \cup (90..97)
BgCodes == (40..47) \cup (100..107)

\* the field a code concerns, and the value it gives it
FieldOf(code) ==
    IF code \in {1, 22} THEN "is_bold"
    ELSE IF code \in {4, 24} THEN "is_underline"
    ELSE IF code \in FgCodes \cup {39} THEN "current_fg_tag"
    ELSE IF code \in BgCodes \cup {49} THEN "current_bg_tag"
    ELSE IF code = 0 THEN "all"
    ELSE "none"

Fields == {"is_bold", "is_underline", "current_fg_tag", "current_bg_tag"}

ValueOf(code, field) ==
    IF code = 0 THEN DefaultStyle[field]
    ELSE IF code = 1 THEN TRUE
    ELSE IF code = 4 THEN TRUE
    ELSE IF code \in {22, 24} THEN FALSE
    ELSE IF code \in {39, 49} THEN DefaultStyle[field]
    ELSE ANSI_COLOR_MAP[code]

\* all codes of a message, escape after escape
AllCodes(parts) ==
    Flatten([m \in 1..((Len(parts) - 1) \div 2) |-> CodesOf(parts, m)])

\* what the codes, applied from left to right, leave in a field that held v
LeftToRight(codes, field, v) ==
    LET about == {k \in 1..Len(codes) : FieldOf(codes[k]) \in {field, "all"}}
    IN  IF about = {} THEN v
        ELSE ValueOf(codes[CHOOSE k \in about : \A m \in about : m <= k], field)

C35_SgrFrameEffects ==
    [][DisplayStep =>
        LET parts == AnsiSplit(gui_events[gui_done + 1].message, 0, 0, <<>>)
            escapes == (Len(parts) - 1) \div 2
        IN  /\ \A m \in 1..escapes : \A c \in 1..Len(CodesOf(parts, m)) :
                 LET codes == CodesOf(parts, m)
                     before == ApplyCodes(RegisterBefore(parts, m), SubSeq(codes, 1, c - 1))
                     after == ApplyCodes(RegisterBefore(parts, m), SubSeq(codes, 1, c))
                 IN  \A f \in Fields :
                        FieldOf(codes[c]) \notin {f, "all"} => after[f] = before[f]
            /\ \A f \in Fields : Style'[f] = LeftToRight(AllCodes(parts), f, Style[f])]_vars

\* bold, underlined red on green; then ESC[24;38m: only the underline has gone
C35_Witness ==
    /\ gui_done = 4
    /\ gui_events[3].message = SgrEscape(<<1, 4, 31, 42>>) \o <<10>>
    /\ gui_events[4].message = SgrEscape(<<24, 38>>) \o <<120, 10>>
    /\ Style = [current_fg_tag |-> "red_fg", current_bg_tag |-> "green_bg",
                is_bold |-> TRUE, is_underline |-> FALSE]

-----------------------------------------------------------------------------
(* C36: the outbound path.  A command submitted while connected leads to   *)
(* exactly one sendall call, whose frame is the UTF-8 encoding of the      *)
(* expanded input followed by one newline, and once sendall has returned   *)
(* exactly these bytes are on the wire; a command submitted while not      *)
(* connected leads to no write; and nothing else writes to the socket.     *)
Utf8Of(c) == IF c < 128 THEN <<c>> ELSE <<192 + (c \div 64), 128 + (c % 64)>>

Utf8Text(t) == Flatten([k \in 1..Len(t) |-> Utf8Of(t[k])])

\* send_message showed "> raw\n": the command was submitted while connected
SubmitsConnected ==
    /\ Len(spans') = Len(spans) + 1
    /\ "user_input" \in {Last(spans').tags[k] : k \in 1..Len(Last(spans').tags)}

\* send_message showed "Not connected to the MUD."
SubmitsNotConnected ==
    /\ Len(spans') = Len(spans) + 1
    /\ Last(spans').text = MsgNotConnected

SubmittedRaw == SubSeq(Last(spans').text, 3, Len(Last(spans').text) - 1)

C36_OutboundPath ==
    /\ [][/\ SubmitsConnected
             => /\ connected /\ sock # 0
                /\ sock_calls' = Append(sock_calls,
                       [w |-> "gui",
                        frame |-> Utf8Text(ProcessInput(aliases, SubmittedRaw) \o <<10>>),
                        sock |-> sock])
          /\ SubmitsNotConnected
             => /\ ~(connected /\ sock # 0)
                /\ sock_calls' = sock_calls /\ sock_out' = sock_out /\ inflight' = inflight
          /\ sock_calls' # sock_calls => SubmitsConnected]_vars
    /\ [] (inflight["gui"] = <<>>
           => SockBytes = Flatten([j \in 1..Len(sock_calls) |-> sock_calls[j].frame]))

\* "é" was sent as C3 A9 0A; after the disconnect a command was refused
C36_Witness ==
    /\ Len(sock_calls) = 1
    /\ sock_calls[1].frame = <<195, 169, 10>>
    /\ SockBytes = <<195, 169, 10>>
    /\ ~connected /\ sock = 0
    /\ Refusals = 1

-----------------------------------------------------------------------------
(* C37: what a feed leaves in the buffers.  After every completed feed the *)
(* unconsumed-byte buffer is empty, or it holds exactly one byte, one of   *)
(* WILL, DO, WONT and DONT, and the decoder is in the state entered after  *)
(* an IAC; the sub-negotiation payload is non-empty only in the GMCP       *)
(* sub-negotiation state.                                                  *)
AwaitsOption(f) ==
    /\ Len(f.buffer) = 1
    /\ f.buffer[1] \in {WILL, DO, WONT, DONT}
    /\ f.state = STATE_IAC

C37_BufferAfterFeed ==
    \A j \in 1..Len(feeds) :
        /\ feeds[j].buffer = <<>> \/ AwaitsOption(feeds[j])
        /\ feeds[j].sub # <<>> => feeds[j].state = STATE_GMCP_SUB

\* one feed ended on IAC DO, the next one brought the option
C37_Witness ==
    \E j \in 1..Len(feeds) - 1 :
        /\ AwaitsOption(feeds[j]) /\ feeds[j].buffer = <<DO>>
        /\ feeds[j + 1].buffer = <<>> /\ feeds[j + 1].state = STATE_NORMAL

-----------------------------------------------------------------------------
(* C39: the prompt signal carries no text.  Every event of the decoder     *)
(* with is_prompt_signal true has an empty fragment, and every event with  *)
(* a non-empty fragment has is_prompt_signal false: the text before an IAC *)
(* is emitted when the IAC is read, so none is pending at the go-ahead.    *)
C39_PromptSignalIsEmpty ==
    \A j \in 1..Len(feeds) : \A k \in 1..Len(feeds[j].events) :
        LET e == feeds[j].events[k]
        IN  /\ e.prompt => e.text = <<>> /\ e.raw = <<>>
            /\ e.text # <<>> => ~e.prompt

\* "a" IAC GA in one feed: the text first, not a prompt, then the empty prompt signal
C39_Witness ==
    \E j \in 1..Len(feeds) :
        /\ feeds[j].chunk = <<97, IAC, GA>>
        /\ Len(feeds[j].events) = 2
        /\ feeds[j].events[1].text = <<97>> /\ ~feeds[j].events[1].prompt
        /\ feeds[j].events[2].text = <<>> /\ feeds[j].events[2].prompt

-----------------------------------------------------------------------------
(* C38: the line assembler neither loses nor duplicates characters.  At    *)
(* every moment of a session the display units queued so far (complete     *)
(* lines, prompt flushes, idle flushes and the teardown flush without the  *)
(* newline appended to it), followed by what the assembler still holds     *)
(* with its carriage returns removed, spell the text fragments the decoder *)
(* has emitted with every carriage return removed; once the receive thread *)
(* has ended nothing is held, so the units alone spell that text.          *)
FromAssembler(e) == e.f = "display_message" /\ e.at \in {730, 738, 745, 764}

DisplayUnit(e) ==
    IF e.at = 764 THEN SubSeq(e.message, 1, Len(e.message) - 1) ELSE e.message

DisplayUnits ==
    Flatten([k \in 1..Len(gui_events) |->
                IF FromAssembler(gui_events[k]) THEN DisplayUnit(gui_events[k]) ELSE <<>>])

DecodedText == Flatten([j \in 1..Len(feeds) |-> TextOf(feeds[j].events)])

C38_NothingLostOrDuplicated ==
    /\ DisplayUnits \o RemoveCr(readers[1].line_buffer) = RemoveCr(DecodedText)
    /\ readers[1].pc = "done" => DisplayUnits = RemoveCr(DecodedText)

\* "P\r" arrived in one piece and was held; when the session ended the
\* teardown flush queued "P\n", of which "P" is the text received
C38_Witness ==
    /\ readers[1].pc = "done"
    /\ DecodedText = <<80, 13>>
    /\ \E k \in 1..Len(gui_events) :
         gui_events[k].at = 764 /\ gui_events[k].message = <<80, 10>>
    /\ DisplayUnits = <<80>>

-----------------------------------------------------------------------------
(* C40: the capability announcement.  Each connection is sent at most one  *)
(* Client.Core.Supports packet, also when the user disconnects and         *)
(* connects again before the timer of the earlier connection has fired.    *)
SupportsOn(c) ==
    Cardinality({j \in 1..Len(sock_calls) :
                    sock_calls[j].frame = SupportsPacket /\ sock_calls[j].sock = c})

C40_AnnouncedOnce == \A c \in 1..sockets : SupportsOn(c) <= 1

(* C40, second part: nothing is written to the socket by send_gmcp while   *)
(* the session is not connected.                                           *)
C40_NoGmcpWhenNotConnected ==
    [][sock_calls' # sock_calls => connected /\ sock # 0 /\ sock' = sock]_vars

====
